---- MODULE Spec2Model ----
(***************************************************************************)
(* Model of the data-cleaning and reconciliation engine of                 *)
(* datajoint_dashboard (callback_utils.py and the add_record callback of   *)
(* templates.py).                                                          *)
(*                                                                         *)
(* Values.  Python values are written as strings: a raw GUI string is      *)
(* itself ("5", "a", ""), None is "None", an int n produced by int() or    *)
(* returned by the database is "i:n", a date is "d:...", a datetime is     *)
(* "t:...", a float is "f:...".  Raw GUI strings of the model never start  *)
(* with one of these prefixes.                                             *)
(*                                                                         *)
(* Dicts.  A Python dict is a sequence of <<key, value>> pairs with        *)
(* distinct keys, in insertion order; equality of dicts ignores the order, *)
(* iteration (items, zip) follows it.                                      *)
(***************************************************************************)
EXTENDS Integers, Sequences, FiniteSets, TLC

(* ------------------------------ bounds --------------------------------- *)

\* longest row list submitted to update_part_table / insert_part_table
MaxRows == 2
\* longest part-table row list submitted with the add-record dialog
MaxAddRows == 1

\* the writes another actor makes during one update_part_table call
MaxOtherWrites == 1

(* ------------------------------ dicts ---------------------------------- *)

Keys(d) == {d[i][1] : i \in DOMAIN d}

Values(d) == {d[i][2] : i \in DOMAIN d}

Get(d, k) == d[CHOOSE i \in DOMAIN d : d[i][1] = k][2]

\* d[k] = v for a key d already has: the position of k is kept
SetItem(d, k, v) == [i \in DOMAIN d |-> IF d[i][1] = k THEN <<k, v>> ELSE d[i]]

\* {k: v for k, v in d.items() if k in ks}
Restrict(d, ks) == SelectSeq(d, LAMBDA p : p[1] \in ks)

\* d1 == d2 of two Python dicts
DictEq(d1, d2) ==
    /\ Keys(d1) = Keys(d2)
    /\ \A k \in Keys(d1) : Get(d1, k) = Get(d2, k)

(* A list element that is either a dict or a str (clean_gui_data can put   *)
(* both in one list).                                                      *)
PyDict(d) == [tag |-> "dict", s |-> "", d |-> d]

PyStr(s) == [tag |-> "str", s |-> s, d |-> <<>>]

PyEq(x, y) ==
    /\ x.tag = y.tag
    /\ IF x.tag = "dict" THEN DictEq(x.d, y.d) ELSE x.s = y.s

\* ListEq comparing the items() of the dicts, position by position
ListEqPositional(xs, ys) == xs = ys

\* xs == ys of two Python lists
ListEq(xs, ys) ==
    /\ Len(xs) = Len(ys)
    /\ \A i \in DOMAIN xs : PyEq(xs[i], ys[i])

\* x in xs
InList(x, xs) == \E i \in DOMAIN xs : PyEq(x, xs[i])

(* ------------------------------ schema --------------------------------- *)

\* heading of the master table: attribute names in heading order
MasterCols == <<"subject_id", "name", "age">>

MasterPK == {"subject_id"}

\* heading of the part table
PartCols == <<"subject_id", "session", "note", "score">>

PartPK == {"subject_id", "session"}

\* attrs[k].type
MasterAttrs == [subject_id |-> "int", name |-> "varchar", age |-> "int"]

PartAttrs == [subject_id |-> "int", session |-> "int", note |-> "varchar",
              score |-> "int"]

\* a heading with one attribute of every kind of type the cleaning tells
\* apart
WideCols == <<"id", "label", "day", "seen", "stamp", "weight", "kind">>

WidePK == {"id"}

WideAttrs == [id |-> "int", label |-> "varchar", day |-> "date",
              seen |-> "datetime", stamp |-> "timestamp", weight |-> "decimal",
              kind |-> "enum"]

SeqToSet(s) == {s[i] : i \in DOMAIN s}

\* table.heading.secondary_attributes, in heading order
Secondary(cols, pk) == SelectSeq(cols, LAMBDA c : c \notin pk)

(* ------------------------------ coercion ------------------------------- *)

\* the decimal numerals of the model, and the values int() gives for them
IntText == {"0", "1", "2", "5", "7", "8"}

TypedInt == {"i:" \o t : t \in IntText}

DateText == {"2024-01-15"}

TypedDate == {"d:" \o t : t \in DateText}

TypedDateTime == {"t:" \o t : t \in DateText}

TypedFloat == {"f:" \o t : t \in IntText}

\* bool(v) is False
Falsy(v) == v \in {"", "None", "i:0", "f:0"}

IsVarchar(t) == t = "varchar"

IsIntType(t) == t \in {"int", "smallint", "tinyint", "bigint"}

IsFloatType(t) == t \in {"float", "double", "decimal"}

Val(v) == [err |-> "", val |-> v]

Err(s) == [err |-> s, val |-> ""]

\* datetime.datetime.strptime(v, '%Y-%m-%d').date()
ParseDate(v) ==
    IF v \in DateText THEN Val("d:" \o v) ELSE Err("Invalid date value " \o v)

\* ParseDateTime without the second format
ParseDateTimeSpaceOnly(t, v) ==
    IF \E d \in DateText : v = d \o " 10:00:00"
    THEN Val("t:" \o (CHOOSE d \in DateText : v = d \o " 10:00:00"))
    ELSE Err("Invalid " \o t \o " value " \o v)

\* strptime with '%Y-%m-%d %H:%M:%S', then with '%Y-%m-%dT%H:%M:%S'
ParseDateTime(t, v) ==
    IF \E d \in DateText : v \in {d \o " 10:00:00", d \o "T10:00:00"}
    THEN Val("t:" \o (CHOOSE d \in DateText :
                         v \in {d \o " 10:00:00", d \o "T10:00:00"}))
    ELSE Err("Invalid " \o t \o " value " \o v)

\* int(v)
ParseInt(v) ==
    IF v \in IntText THEN Val("i:" \o v)
    ELSE IF v \in TypedInt THEN Val(v)
    ELSE Err("Invalid int value " \o v)

\* float(v)
ParseFloat(v) ==
    IF v \in IntText THEN Val("f:" \o v)
    ELSE IF v \in TypedFloat THEN Val(v)
    ELSE Err("Invalid numeric value " \o v)

\* CoerceField parsing a date or datetime field whatever it holds
CoerceFieldParseTyped(t, v) ==
    IF ~IsVarchar(t) /\ v = "" THEN Val("None")
    ELSE IF Falsy(v) THEN Val(v)
    ELSE IF t = "date" THEN ParseDate(v)
    ELSE IF t \in {"datetime", "timestamp"} THEN ParseDateTime(t, v)
    ELSE IF IsIntType(t) THEN ParseInt(v)
    ELSE IF IsFloatType(t) THEN ParseFloat(v)
    ELSE Val(v)

\* one pass of the loop body of clean_single_gui_record for a column of
\* type t holding v: the value left in d[k], or the error string returned
CoerceField(t, v) ==
    IF ~IsVarchar(t) /\ v = "" THEN Val("None")
    ELSE IF Falsy(v) THEN Val(v)
    ELSE IF t = "date"
         THEN IF v \in TypedDate THEN Val(v) ELSE ParseDate(v)
    ELSE IF t \in {"datetime", "timestamp"}
         THEN IF v \in TypedDateTime THEN Val(v) ELSE ParseDateTime(t, v)
    ELSE IF IsIntType(t) THEN ParseInt(v)
    ELSE IF IsFloatType(t) THEN ParseFloat(v)
    ELSE Val(v)

\* Meaningful taking every record that has a field for one to keep
MeaningfulNonEmpty(d, master_key) == d # <<>>

\* the record is not a blank placeholder (the condition of the outer if)
Meaningful(d, master_key) ==
    IF master_key = <<>>
    THEN Values(d) # {""}
    ELSE Values(Restrict(d, Keys(d) \ Keys(master_key))) # {""}

\* CoerceFrom passing over a field that fails coercion
RECURSIVE CoerceFromSkip(_, _, _)
CoerceFromSkip(d, attrs, i) ==
    IF i > Len(d) THEN [err |-> "", d |-> d]
    ELSE LET r == CoerceField(attrs[d[i][1]], d[i][2])
         IN  CoerceFromSkip(IF r.err # "" THEN d ELSE SetItem(d, d[i][1], r.val),
                            attrs, i + 1)

\* what attrs[k] raises for a key k that is no attribute of the heading
KeyError == "KeyError"

(* The for loop over d.items() from position i on.  d is changed in place; *)
(* the first error ends the loop with d changed up to that column; a key   *)
(* that is no attribute of the heading ends it with KeyError.              *)
RECURSIVE CoerceFrom(_, _, _)
CoerceFrom(d, attrs, i) ==
    IF i > Len(d) THEN [err |-> "", d |-> d]
    ELSE LET k == d[i][1]
         IN  IF k \notin DOMAIN attrs THEN [err |-> KeyError, d |-> d]
             ELSE LET r == CoerceField(attrs[k], d[i][2])
                  IN  IF r.err # "" THEN [err |-> r.err, d |-> d]
                      ELSE CoerceFrom(SetItem(d, k, r.val), attrs, i + 1)

\* InjectKey without the pop: the record's own value overrides the master key
InjectKeyRecordWins(d, master_key) ==
    SelectSeq(master_key, LAMBDA p : p[1] \notin Keys(d)) \o d

\* dict(**master_key, **d) after every master-key column was popped from d
InjectKey(d, master_key) ==
    master_key \o SelectSeq(d, LAMBDA p : p[1] \notin Keys(master_key))

(* clean_single_gui_record: ret is the returned value (tag "none" for None,*)
(* "str" for an error string, "dict" for a record), d the argument dict as *)
(* the call leaves it; tag "raise" when the call raises KeyError.          *)
clean_single_gui_record(d, attrs, master_key, add_master_key) ==
    IF ~Meaningful(d, master_key)
    THEN [tag |-> "none", ret |-> PyStr(""), d |-> d]
    ELSE LET c == CoerceFrom(d, attrs, 1)
         IN  IF c.err = KeyError
             THEN [tag |-> "raise", ret |-> PyStr(KeyError), d |-> c.d]
             ELSE IF c.err # ""
             THEN [tag |-> "str", ret |-> PyStr(c.err), d |-> c.d]
             ELSE IF master_key # <<>> /\ add_master_key
                  THEN [tag |-> "dict",
                        ret |-> PyDict(InjectKey(c.d, master_key)),
                        d |-> SelectSeq(c.d, LAMBDA p : p[1] \notin Keys(master_key))]
                  ELSE [tag |-> "dict", ret |-> PyDict(c.d), d |-> c.d]

\* bool(clean_d) in clean_gui_data
Truthy(r) ==
    \/ r.tag = "str" /\ r.ret.s # ""
    \/ r.tag = "dict" /\ r.ret.d # <<>>

\* the loop of clean_gui_data: the truthy results, in order
RECURSIVE CleanLoop(_, _, _, _)
CleanLoop(attrs, data, master_key, add_master_key) ==
    IF data = <<>> THEN <<>>
    ELSE LET r == clean_single_gui_record(Head(data), attrs, master_key,
                                          add_master_key)
             rest == CleanLoop(attrs, Tail(data), master_key, add_master_key)
         IN  IF Truthy(r) THEN <<r.ret>> \o rest ELSE rest

\* clean_gui_data: what it returns is always a list (tag "list")
clean_gui_data(attrs, data, master_key, add_master_key) ==
    [tag |-> "list", s |-> "",
     items |-> CleanLoop(attrs, data, master_key, add_master_key)]

(* ------------------------------ the older cleaning -------------------- *)
(* clean_single_gui_record and clean_gui_data of                           *)
(* src/dj_dashboard/callback_utils.py, the older copy of the module.       *)

\* strptime with the one format the older copy has for the type t
dj_ParseDateTime(t, v) ==
    LET tail == IF t = "datetime" THEN " 10:00:00" ELSE "T10:00:00"
    IN  IF \E d \in DateText : v = d \o tail
        THEN Val("t:" \o (CHOOSE d \in DateText : v = d \o tail))
        ELSE Err("Invalid " \o t \o " value " \o v)

\* the loop body of the older clean_single_gui_record: lines 15-49
dj_CoerceField(t, v) ==
    IF ~IsVarchar(t) /\ v = "" THEN Val("None")
    ELSE IF Falsy(v) THEN Val(v)
    ELSE IF t = "date" THEN ParseDate(v)
    ELSE IF t \in {"datetime", "timestamp"} THEN dj_ParseDateTime(t, v)
    ELSE IF IsIntType(t) THEN ParseInt(v)
    ELSE IF IsFloatType(t) THEN ParseFloat(v)
    ELSE Val(v)

\* the for loop of the older clean_single_gui_record from position i on
RECURSIVE dj_CoerceFrom(_, _, _)
dj_CoerceFrom(d, attrs, i) ==
    IF i > Len(d) THEN [err |-> "", d |-> d]
    ELSE LET k == d[i][1]
         IN  IF k \notin DOMAIN attrs THEN [err |-> KeyError, d |-> d]
             ELSE LET r == dj_CoerceField(attrs[k], d[i][2])
                  IN  IF r.err # "" THEN [err |-> r.err, d |-> d]
                      ELSE dj_CoerceFrom(SetItem(d, k, r.val), attrs, i + 1)

\* the older clean_single_gui_record(d, attrs, master_key): what it returns
\* and what it leaves in d
dj_clean_single_gui_record(d, attrs, master_key) ==
    IF ~Meaningful(d, master_key)
    THEN [tag |-> "none", ret |-> PyStr(""), d |-> d]
    ELSE LET c == dj_CoerceFrom(d, attrs, 1)
         IN  IF c.err = KeyError
             THEN [tag |-> "raise", ret |-> PyStr(KeyError), d |-> c.d]
             ELSE IF c.err # ""
             THEN [tag |-> "str", ret |-> PyStr(c.err), d |-> c.d]
             ELSE [tag |-> "dict", ret |-> PyDict(c.d), d |-> c.d]

\* the loop of the older clean_gui_data: d itself is appended, as the
\* cleaning left it, whenever it is a non-empty dict (lines 62-65)
RECURSIVE dj_CleanLoop(_, _, _)
dj_CleanLoop(attrs, data, master_key) ==
    IF data = <<>> THEN <<>>
    ELSE LET r == dj_clean_single_gui_record(Head(data), attrs, master_key)
             rest == dj_CleanLoop(attrs, Tail(data), master_key)
         IN  IF r.d # <<>> THEN <<PyDict(r.d)>> \o rest ELSE rest

\* the older clean_gui_data; a key that is no attribute makes it raise
dj_clean_gui_data(attrs, data, master_key) ==
    IF \E j \in DOMAIN data :
          dj_clean_single_gui_record(data[j], attrs, master_key).tag = "raise"
    THEN [tag |-> "raise", s |-> KeyError, items |-> <<>>]
    ELSE [tag |-> "list", s |-> "", items |-> dj_CleanLoop(attrs, data, master_key)]

(* ------------------------------ storage -------------------------------- *)
(* The database behind the tables.  A stored row is a record over the      *)
(* heading; the primary key is unique; a part row needs its master row     *)
(* (foreign key).  A value sent to the database is converted to the type   *)
(* of its column, or rejected ("!").                                       *)

\* the value the database stores for v in a column of type t
StoreValue(t, v, nullable) ==
    IF v = "None" THEN (IF nullable THEN "None" ELSE "!")
    ELSE IF IsIntType(t)
         THEN IF v \in TypedInt THEN v
              ELSE IF v \in IntText THEN "i:" \o v ELSE "!"
    ELSE IF IsVarchar(t)
         THEN IF v \in TypedInt THEN CHOOSE n \in IntText : "i:" \o n = v
              ELSE v
    ELSE v

\* fetch(as_dict=True) of one row: a dict in heading order
RowToDict(row, cols) == [i \in DOMAIN cols |-> <<cols[i], row[cols[i]]>>]

\* the database accepts the list element x as a row of the table
Storable(x, cols, attrs, pk) ==
    /\ x.tag = "dict"
    /\ Keys(x.d) \subseteq SeqToSet(cols)
    /\ pk \subseteq Keys(x.d)
    /\ \A k \in Keys(x.d) : StoreValue(attrs[k], Get(x.d, k), k \notin pk) # "!"

\* the row stored for x; a column x does not give is NULL
DictToRow(x, cols, attrs, pk) ==
    [c \in SeqToSet(cols) |->
        IF c \in Keys(x.d) THEN StoreValue(attrs[c], Get(x.d, c), c \notin pk)
        ELSE "None"]

\* the row satisfies the restriction by the dict d (table & d); keys of d
\* that are no attributes of the table are ignored
Matches(row, d, cols, attrs) ==
    \A k \in Keys(d) \cap SeqToSet(cols) :
        StoreValue(attrs[k], Get(d, k), TRUE) = row[k]

\* table & d
RestrictTable(tbl, d, cols, attrs) ==
    {row \in tbl : Matches(row, d, cols, attrs)}

\* table & [d1, d2, ...]
RestrictTableList(tbl, ds, cols, attrs) ==
    {row \in tbl : \E i \in DOMAIN ds : Matches(row, ds[i].d, cols, attrs)}

SamePK(r1, r2, pk) == \A k \in pk : r1[k] = r2[k]

(* The rows of xs the table gains, in order; with skip_duplicates a row    *)
(* whose key is taken is passed over.                                      *)
RECURSIVE AddRows(_, _, _, _, _)
AddRows(tbl, xs, cols, attrs, pk) ==
    IF xs = <<>> THEN tbl
    ELSE LET row == DictToRow(Head(xs), cols, attrs, pk)
         IN  AddRows(IF \E r \in tbl : SamePK(r, row, pk) THEN tbl
                     ELSE tbl \cup {row},
                     Tail(xs), cols, attrs, pk)

\* no two rows of xs, and no row of xs and row of tbl, share a key
NoDuplicate(tbl, xs, cols, attrs, pk) ==
    /\ \A i \in DOMAIN xs : \A r \in tbl :
          ~SamePK(r, DictToRow(xs[i], cols, attrs, pk), pk)
    /\ \A i, j \in DOMAIN xs :
          i # j => ~SamePK(DictToRow(xs[i], cols, attrs, pk),
                           DictToRow(xs[j], cols, attrs, pk), pk)

\* every row of xs has its master row
HasMaster(mtbl, xs) ==
    \A i \in DOMAIN xs : \E m \in mtbl :
        m.subject_id = DictToRow(xs[i], PartCols, PartAttrs, PartPK).subject_id

\* part_table.insert(xs, skip_duplicates=skip) can succeed
CanInsertPart(mtbl, ptbl, xs, skip) ==
    /\ \A i \in DOMAIN xs : Storable(xs[i], PartCols, PartAttrs, PartPK)
    /\ HasMaster(mtbl, xs)
    /\ skip \/ NoDuplicate(ptbl, xs, PartCols, PartAttrs, PartPK)

\* table.insert1(x) can succeed
CanInsertMaster(mtbl, x) ==
    /\ Storable(x, MasterCols, MasterAttrs, MasterPK)
    /\ NoDuplicate(mtbl, <<x>>, MasterCols, MasterAttrs, MasterPK)

\* dj.Table._update(table & d, f, v) can succeed: one row, a secondary
\* attribute, a value of its type
CanUpdate(tbl, d, f, v, cols, attrs, pk) ==
    /\ Cardinality(RestrictTable(tbl, d, cols, attrs)) = 1
    /\ f \in SeqToSet(cols) \ pk
    /\ StoreValue(attrs[f], v, TRUE) # "!"

\* the table after dj.Table._update(table & d, f, v)
UpdateField(tbl, d, f, v, cols, attrs) ==
    {IF Matches(row, d, cols, attrs)
     THEN [row EXCEPT ![f] = StoreValue(attrs[f], v, TRUE)]
     ELSE row : row \in tbl}

\* the int values in increasing order
IntOrder == <<"i:0", "i:1", "i:2", "i:5", "i:7", "i:8">>

Rank(v) == CHOOSE i \in DOMAIN IntOrder : IntOrder[i] = v

\* rows of one master in primary-key order, as the database returns them
RECURSIVE SortRows(_)
SortRows(rows) ==
    IF rows = {} THEN <<>>
    ELSE LET first == CHOOSE r \in rows :
                 \A q \in rows :
                    \/ Rank(r.subject_id) < Rank(q.subject_id)
                    \/ /\ r.subject_id = q.subject_id
                       /\ Rank(r.session) <= Rank(q.session)
         IN  <<first>> \o SortRows(rows \ {first})

\* (part_table & master_key).fetch(as_dict=True)
FetchPart(ptbl, master_key) ==
    LET rows == SortRows(RestrictTable(ptbl, master_key, PartCols, PartAttrs))
    IN  [i \in DOMAIN rows |-> PyDict(RowToDict(rows[i], PartCols))]

(* ------------------------------ the diff ------------------------------- *)
(* The list comprehensions of update_part_table.  new_data holds dicts     *)
(* only here: a str element makes d.items() raise before any of them.      *)

HasStr(xs) == \E i \in DOMAIN xs : xs[i].tag = "str"

\* {k: v for k, v in d.items() if k in pks}
PkOf(x, pks) == PyDict(Restrict(x.d, pks))

new_data_pk(new, pks) == [i \in DOMAIN new |-> PkOf(new[i], pks)]

old_data_pk(old, pks) == [i \in DOMAIN old |-> PkOf(old[i], pks)]

\* pks_to_be_deleted keeping only the first key, one key per delete call
pks_to_be_deleted_first(old, new, pks) ==
    LET all == SelectSeq(old_data_pk(old, pks),
                         LAMBDA pk : ~InList(pk, new_data_pk(new, pks)))
    IN  IF all = <<>> THEN <<>> ELSE <<all[1]>>

\* [pk for pk in old_data_pk if pk not in new_data_pk]
pks_to_be_deleted(old, new, pks) ==
    SelectSeq(old_data_pk(old, pks),
              LAMBDA pk : ~InList(pk, new_data_pk(new, pks)))

\* new_records testing the whole row:  if d not in old_data
new_records_by_row(old, new, pks) == SelectSeq(new, LAMBDA d : ~InList(d, old))

\* [d for pk, d in zip(new_data_pk, new_data) if pk not in old_data_pk]
new_records(old, new, pks) ==
    SelectSeq(new, LAMBDA d : ~InList(PkOf(d, pks), old_data_pk(old, pks)))

\* records_to_be_updated without the test  d not in old_data
records_to_be_updated_all(old, new, pks) ==
    SelectSeq(new, LAMBDA d : InList(PkOf(d, pks), old_data_pk(old, pks)))

\* [(pk, d) for pk, d in zip(new_data_pk, new_data)
\*  if pk in old_data_pk and d not in old_data]; the pk of a pair is PkOf(d)
records_to_be_updated(old, new, pks) ==
    SelectSeq(new, LAMBDA d : /\ InList(PkOf(d, pks), old_data_pk(old, pks))
                              /\ ~InList(d, old))

\* [d for old_pk, d in zip(old_data_pk, old_data) if old_pk == pk][0]
old_record(old, pk, pks) ==
    old[CHOOSE i \in DOMAIN old :
          /\ PyEq(PkOf(old[i], pks), pk)
          /\ \A j \in 1..(i - 1) : ~PyEq(PkOf(old[j], pks), pk)]

Min(a, b) == IF a < b THEN a ELSE b

(* The inner loop over zip(old_record.items(), new_record.items()) from    *)
(* position j on: the _update calls it makes, in order.                    *)
RECURSIVE FieldUpdates(_, _, _, _)
FieldUpdates(oldr, newr, pks, j) ==
    IF j > Min(Len(oldr.d), Len(newr.d)) THEN <<>>
    ELSE LET old_k == oldr.d[j][1]
             old_v == oldr.d[j][2]
             new_v == newr.d[j][2]
             rest  == FieldUpdates(oldr, newr, pks, j + 1)
         IN  IF old_k \notin pks /\ old_v # new_v
             THEN <<[pk |-> PkOf(newr, pks), f |-> old_k,
                     old_v |-> old_v, new_v |-> new_v]>> \o rest
             ELSE rest

\* the outer loop over records_to_be_updated from position n on
RECURSIVE UpdatesFrom(_, _, _, _)
UpdatesFrom(old, todo, pks, n) ==
    IF n > Len(todo) THEN <<>>
    ELSE FieldUpdates(old_record(old, PkOf(todo[n], pks), pks), todo[n], pks, 1)
         \o UpdatesFrom(old, todo, pks, n + 1)

\* every _update call of the update step, in the order the loops make them
UpdatePlan(old, new, pks) ==
    UpdatesFrom(old, records_to_be_updated(old, new, pks), pks, 1)

(* ------------------------------ state ---------------------------------- *)

VARIABLES
    master,      \* rows of the master table
    part,        \* rows of the part table
    part0,       \* rows of the part table when the call began
    call,        \* the entry point in progress
    pc,          \* its position
    master_key,  \* the master key passed to the part-table functions
    rec,         \* the master record submitted (new_data / new_data[0]),
                 \* changed in place when it is cleaned
    rec0,        \* the master record as it was submitted
    data,        \* the part-table rows submitted
    new_data,    \* the list clean_gui_data returned
    old_data,    \* the rows fetched by update_part_table
    entry,       \* the cleaned master record
    i,           \* position of the loop in progress
    e_bound,     \* the name e of update_part_table is bound
    msg,         \* the outcome log built so far
    ops,         \* the database operations issued by the call, in order
    result,      \* what the call returned or raised
    schema,      \* the heading a record is cleaned against
    add_key,     \* the argument add_master_key of clean_single_gui_record
    clean_d,     \* what clean_single_gui_record returned for the record
    clean_d2,    \* what it returned when given its own result
    entry_pk,    \* what get_pk returned for the cleaned record
    other,       \* the writes another actor made to the part table after
                 \* the fetch of an update_part_table call
    restrictor,  \* Filter.restrictor of every filter of the table block
    filter_values, \* the value every browser session shows in every filter
    table_data,  \* the rows update_table_data returned last, and to whom
    first,       \* what the update_part_table of dj_dashboard did and logged,
                 \* kept while the one of datajoint_dashboard runs
    fault_at     \* the number of the database operation that fails (0: none)

\* the variables of a single cleaning of a record
\* the variables outside the call in progress
aside == <<other, restrictor, filter_values, table_data, first, fault_at>>

cleaning == <<schema, add_key, clean_d, clean_d2, entry_pk, aside>>

vars == <<master, part, part0, call, pc, master_key, rec, rec0, data, new_data, old_data,
          entry, i, e_bound, msg, ops, result, cleaning>>

(* A log line: kind says success ("ok"), failure ("err"), warning ("warn") *)
(* or plain text ("info"); what names the step; ref the record or field.   *)
Entry(kind, what, ref) == [kind |-> kind, what |-> what, ref |-> ref]

\* a database operation: op on table tbl with arguments arg (rows or keys),
\* field f and value v; at is the length of the log when it was issued
Op(op, tbl, ok, arg, f, v) ==
    [op |-> op, tbl |-> tbl, ok |-> ok, arg |-> arg, f |-> f, v |-> v,
     at |-> Len(msg)]

NoResult == [kind |-> "none", val |-> <<>>, exc |-> ""]

Returned(log) == [kind |-> "return", val |-> log, exc |-> ""]

Raised(exc) == [kind |-> "raise", val |-> <<>>, exc |-> exc]

\* the log the dialog passes on: 'Update message:\n'
Msg0 == <<Entry("info", "header", <<>>)>>

(* ------------------------------ inputs --------------------------------- *)

RawSession == {"", "1", "2"}

RawNote == {"", "5"}

RawScore == {"", "5", "zz"}

\* the orders in which a submitted part row lists its columns
Orders == {<<"session", "note", "score">>, <<"session", "score", "note">>}


\* the heading order, in which the dialog lists the columns of a part row
PartColsOfDialog == <<"session", "note", "score">>

RawPartRow(o, s, n, c) ==
    LET v == [session |-> s, note |-> n, score |-> c]
    IN  [j \in DOMAIN o |-> <<o[j], v[o[j]]>>]

RawPartRows(o) ==
    {RawPartRow(o, s, n, c) : s \in RawSession, n \in RawNote, c \in RawScore}

RowSeqs(o, max) == UNION {[1..n -> RawPartRows(o)] : n \in 0..max}

RawMasterRows ==
    {<<<<"subject_id", s>>, <<"name", n>>, <<"age", a>>>> :
        s \in {"", "7", "8", "x"}, n \in {"", "b"}, a \in {"", "5", "zz"}}

\* the master key of subject 7
Key7 == <<<<"subject_id", "i:7">>>>

StoredMaster == {[subject_id |-> "i:7", name |-> "b", age |-> "i:5"]}

StoredPartRow(s, n, c) ==
    [subject_id |-> "i:7", session |-> s, note |-> n, score |-> c]

\* the part rows subject 7 can start with: session 1 and session 2, each
\* stored or not
StoredParts ==
    {r1 \cup r2 : r1 \in {{}, {StoredPartRow("i:1", "5", "i:5")}},
                  r2 \in {{}, {StoredPartRow("i:2", "", "None")}}}

\* no call of clean_single_gui_record, of get_pk, was made yet
NoClean == [tag |-> "unset", ret |-> PyStr(""), d |-> <<>>]

NoKey == [raised |-> FALSE, pk |-> <<>>]

\* update_table_data has returned nothing yet
NoData == [session |-> "none", trigger |-> "none", rows |-> {}]

\* the update_part_table of dj_dashboard has not run
NoFirst == [done |-> FALSE, kind |-> "none", ops |-> <<>>, msg |-> <<>>, part |-> {}]

Init ==
    /\ master = StoredMaster
    /\ part \in StoredParts
    /\ part0 = part
    /\ call = "none"
    /\ pc = "idle"
    /\ master_key = <<>>
    /\ rec = <<>>
    /\ rec0 = <<>>
    /\ data = <<>>
    /\ new_data = <<>>
    /\ old_data = <<>>
    /\ entry = PyDict(<<>>)
    /\ i = 1
    /\ e_bound = FALSE
    /\ msg = <<>>
    /\ ops = <<>>
    /\ result = NoResult
    /\ schema = "none"
    /\ add_key = FALSE
    /\ clean_d = NoClean
    /\ clean_d2 = NoClean
    /\ entry_pk = NoKey
    /\ other = <<>>
    /\ restrictor = <<>>
    /\ filter_values = <<>>
    /\ table_data = NoData
    /\ first = NoFirst
    /\ fault_at = 0

(* ------------------------------ update_part_table ---------------------- *)

\* StepAfter with the update step placed before the insert step
StepAfterSwapped(s) ==
    CASE s = "upt_delete" -> "upt_update"
      [] s = "upt_update" -> "upt_insert"
      [] OTHER -> "upt_return"

\* StepAfter with a failed batch insert ending the call after its retries
StepAfterAbort(s) ==
    CASE s = "upt_delete" -> "upt_insert"
      [] s = "upt_insert" -> "upt_update"
      [] OTHER -> "upt_return"

\* the step of update_part_table that follows step s
StepAfter(s) ==
    CASE s = "upt_delete" -> "upt_insert"
      [] s = "upt_insert" -> "upt_update"
      [] s = "upt_insert1" -> "upt_update"
      [] OTHER -> "upt_return"

(* update_part_table is called: lines 132-139 *)
CallUpdatePartTable ==
    /\ pc = "idle"
    /\ \E o \in Orders : \E rows \in RowSeqs(o, MaxRows) :
         LET cleaned == clean_gui_data(PartAttrs, rows, Key7, TRUE)
         IN  /\ call' = "update_part_table"
             /\ master_key' = Key7
             /\ data' = rows
             /\ msg' = Msg0
             /\ IF cleaned.tag = "str"
                THEN /\ new_data' = <<>>
                     /\ result' = Returned(<<Entry("err", "coercion", <<cleaned.s>>)>>)
                     /\ pc' = "done"
                ELSE /\ new_data' = cleaned.items
                     /\ result' = NoResult
                     /\ pc' = "upt_fetch"
    /\ UNCHANGED <<cleaning, master, part, part0, rec, rec0, old_data, entry, i, e_bound, ops>>

(* lines 141-151: fetch the stored rows, compare, project to the keys *)
UptFetch ==
    /\ pc = "upt_fetch"
    /\ \E fault \in BOOLEAN :
         LET old == FetchPart(part, master_key)
         IN  /\ ops' = Append(ops, Op("fetch", "part", ~fault, <<>>, "", ""))
             /\ IF fault
                THEN /\ result' = Raised("DataJointError")
                     /\ pc' = "done"
                     /\ UNCHANGED <<old_data, msg>>
                ELSE /\ old_data' = old
                     /\ IF ListEq(new_data, old)
                        THEN /\ msg' = Append(msg, Entry("info", "unchanged", <<>>))
                             /\ result' = Returned(msg')
                             /\ pc' = "done"
                        ELSE IF HasStr(new_data)
                        THEN /\ result' = Raised("AttributeError")
                             /\ pc' = "done"
                             /\ UNCHANGED msg
                        ELSE /\ pc' = "upt_delete"
                             /\ UNCHANGED <<msg, result>>
    /\ UNCHANGED <<cleaning, master, part, part0, call, master_key, rec, rec0, data, new_data, entry,
                   i, e_bound>>

\* UptDelete reading the stored rows again before it computes the keys
UptDeleteReread ==
    /\ pc = "upt_delete"
    /\ LET todo == pks_to_be_deleted(FetchPart(part, master_key), new_data, PartPK)
       IN  IF todo = <<>>
           THEN UNCHANGED <<part, msg, ops>>
           ELSE \E fault \in BOOLEAN :
                  /\ ops' = Append(ops, Op("delete", "part", ~fault, todo, "", ""))
                  /\ IF fault
                     THEN /\ msg' = Append(msg, Entry("err", "delete", <<>>))
                          /\ UNCHANGED part
                     ELSE /\ part' = part \ RestrictTableList(part, todo, PartCols,
                                                              PartAttrs)
                          /\ msg' = Append(msg, Entry("ok", "delete", <<>>))
    /\ pc' = StepAfter("upt_delete")
    /\ UNCHANGED <<cleaning, master, part0, call, master_key, rec, rec0, data, new_data, old_data,
                   entry, i, e_bound, result>>

(* lines 153-163: the delete step *)
UptDelete ==
    /\ pc = "upt_delete"
    /\ LET todo == pks_to_be_deleted(old_data, new_data, PartPK)
       IN  IF todo = <<>>
           THEN UNCHANGED <<part, msg, ops>>
           ELSE \E fault \in BOOLEAN :
                  /\ ops' = Append(ops, Op("delete", "part", ~fault, todo, "", ""))
                  /\ IF fault
                     THEN /\ msg' = Append(msg, Entry("err", "delete", <<>>))
                          /\ UNCHANGED part
                     ELSE /\ part' = part \ RestrictTableList(part, todo, PartCols,
                                                              PartAttrs)
                          /\ msg' = Append(msg, Entry("ok", "delete", <<>>))
    /\ pc' = StepAfter("upt_delete")
    /\ UNCHANGED <<cleaning, master, part0, call, master_key, rec, rec0, data, new_data, old_data,
                   entry, i, e_bound, result>>

\* what names a row in a log line: its session, or the str itself
RefOf(x) ==
    IF x.tag = "dict" /\ "session" \in Keys(x.d)
    THEN <<Get(x.d, "session")>> ELSE <<x.s>>

(* lines 165-175: the batch insert *)
UptInsert ==
    /\ pc = "upt_insert"
    /\ LET todo == new_records(old_data, new_data, PartPK)
       IN  IF todo = <<>>
           THEN /\ pc' = StepAfter("upt_insert")
                /\ UNCHANGED <<part, msg, ops, i, e_bound>>
           ELSE \E fault \in BOOLEAN :
                  LET ok == ~fault /\ CanInsertPart(master, part, todo, FALSE)
                  IN  /\ ops' = Append(ops, Op("insert", "part", ok, todo, "", ""))
                      /\ IF ok
                         THEN /\ part' = AddRows(part, todo, PartCols, PartAttrs,
                                                 PartPK)
                              /\ msg' = Append(msg, Entry("ok", "insert", <<>>))
                              /\ pc' = StepAfter("upt_insert")
                              /\ UNCHANGED <<i, e_bound>>
                         ELSE /\ i' = 1
                              /\ e_bound' = TRUE
                              /\ pc' = "upt_insert1"
                              /\ UNCHANGED <<part, msg>>
    /\ UNCHANGED <<cleaning, master, part0, call, master_key, rec, rec0, data, new_data, old_data,
                   entry, result>>

(* lines 176-183: one pass of the per-record retry loop.  The success line *)
(* formats str(e); the handler of a failed retry unbinds e when it ends,   *)
(* and from then on formatting the success line raises inside the try, so  *)
(* that the handler appends the error line instead.                        *)
UptInsert1 ==
    /\ pc = "upt_insert1"
    /\ LET todo == new_records(old_data, new_data, PartPK)
           r == todo[i]
       IN  \E fault \in BOOLEAN :
             LET ok == ~fault /\ CanInsertPart(master, part, <<r>>, FALSE)
             IN  /\ ops' = Append(ops, Op("insert1", "part", ok, <<r>>, "", ""))
                 /\ part' = IF ok
                            THEN AddRows(part, <<r>>, PartCols, PartAttrs, PartPK)
                            ELSE part
                 /\ msg' = Append(msg, Entry(IF ok /\ e_bound THEN "ok" ELSE "err",
                                             "insert1", RefOf(r)))
                 /\ e_bound' = (ok /\ e_bound)
                 /\ IF i < Len(todo)
                    THEN /\ i' = i + 1
                         /\ pc' = "upt_insert1"
                    ELSE /\ i' = 1
                         /\ pc' = StepAfter("upt_insert1")
    /\ UNCHANGED <<cleaning, master, part0, call, master_key, rec, rec0, data, new_data, old_data,
                   entry, result>>

(* lines 185-207: the next _update call of the update step *)
UptUpdate ==
    /\ pc = "upt_update"
    /\ LET plan == UpdatePlan(old_data, new_data, PartPK)
       IN  IF i > Len(plan)
           THEN /\ pc' = StepAfter("upt_update")
                /\ i' = 1
                /\ UNCHANGED <<part, msg, ops>>
           ELSE \E fault \in BOOLEAN :
                  LET u == plan[i]
                      ok == ~fault /\ CanUpdate(part, u.pk.d, u.f, u.new_v,
                                                PartCols, PartAttrs, PartPK)
                  IN  /\ ops' = Append(ops, Op("update", "part", ok, <<u.pk>>,
                                               u.f, u.new_v))
                      /\ part' = IF ok
                                 THEN UpdateField(part, u.pk.d, u.f, u.new_v,
                                                  PartCols, PartAttrs)
                                 ELSE part
                      /\ msg' = Append(msg, Entry(IF ok THEN "ok" ELSE "err",
                                                  "update",
                                                  RefOf(u.pk) \o <<u.f, u.old_v, u.new_v>>))
                      /\ i' = i + 1
                      /\ UNCHANGED pc
    /\ UNCHANGED <<cleaning, master, part0, call, master_key, rec, rec0, data, new_data, old_data,
                   entry, e_bound, result>>

(* line 209: return msg *)
UptReturn ==
    /\ pc = "upt_return"
    /\ result' = Returned(msg)
    /\ pc' = "done"
    /\ UNCHANGED <<cleaning, master, part, part0, call, master_key, rec, rec0, data, new_data,
                   old_data, entry, i, e_bound, msg, ops>>

(* ------------------------------ insert_part_table ---------------------- *)

\* lines 79-84 of insert_part_table, entered with the log so far
EnterInsertPartTable(key, rows, log) ==
    LET cleaned == clean_gui_data(PartAttrs, rows, key, TRUE)
    IN  /\ master_key' = key
        /\ data' = rows
        /\ IF cleaned.tag = "str"
           THEN /\ new_data' = <<>>
                /\ msg' = log
                /\ result' = Returned(<<Entry("err", "coercion", <<cleaned.s>>)>>)
                /\ pc' = "done"
           ELSE /\ new_data' = cleaned.items
                /\ msg' = log
                /\ result' = NoResult
                /\ pc' = "ipt_insert"

(* insert_part_table is called *)
CallInsertPartTable ==
    /\ pc = "idle"
    /\ \E rows \in RowSeqs(PartColsOfDialog, MaxRows) :
         /\ call' = "insert_part_table"
         /\ EnterInsertPartTable(Key7, rows, Msg0)
    /\ UNCHANGED <<cleaning, master, part, part0, rec, rec0, old_data, entry, i, e_bound, ops>>

(* lines 86-91: the batch insert, duplicates skipped.  insert of an empty *)
(* list sends nothing to the database and cannot fail.                     *)
IptInsert ==
    /\ pc = "ipt_insert"
    /\ \E fault \in BOOLEAN :
         LET ok == \/ new_data = <<>>
                   \/ ~fault /\ CanInsertPart(master, part, new_data, TRUE)
         IN  /\ ops' = Append(ops, Op("insert", "part", ok, new_data, "", ""))
             /\ IF ok
                THEN /\ part' = AddRows(part, new_data, PartCols, PartAttrs, PartPK)
                     /\ msg' = Append(msg, Entry("ok", "insert", <<>>))
                     /\ result' = Returned(msg')
                     /\ pc' = "done"
                     /\ UNCHANGED i
                ELSE /\ i' = 1
                     /\ pc' = "ipt_insert1"
                     /\ UNCHANGED <<part, msg, result>>
    /\ UNCHANGED <<cleaning, master, part0, call, master_key, rec, rec0, data, new_data, old_data,
                   entry, e_bound>>

(* lines 92-100: one pass of the per-record retry loop, then the return *)
IptInsert1 ==
    /\ pc = "ipt_insert1"
    /\ LET r == new_data[i]
       IN  \E fault \in BOOLEAN :
             LET ok == ~fault /\ CanInsertPart(master, part, <<r>>, TRUE)
             IN  /\ ops' = Append(ops, Op("insert1", "part", ok, <<r>>, "", ""))
                 /\ part' = IF ok
                            THEN AddRows(part, <<r>>, PartCols, PartAttrs, PartPK)
                            ELSE part
                 /\ msg' = Append(msg, Entry(IF ok THEN "ok" ELSE "err",
                                             "insert1", RefOf(r)))
                 /\ IF i < Len(new_data)
                    THEN /\ i' = i + 1
                         /\ UNCHANGED <<pc, result>>
                    ELSE /\ i' = 1
                         /\ result' = Returned(msg')
                         /\ pc' = "done"
    /\ UNCHANGED <<cleaning, master, part0, call, master_key, rec, rec0, data, new_data, old_data,
                   entry, e_bound>>

(* ------------------------------ add_record ----------------------------- *)

(* get_pk: cleans the entry again and keeps its primary-key columns; an    *)
(* entry that is None or a str has no values(): AttributeError.            *)
get_pk(e, tag) ==
    LET again == clean_single_gui_record(e.d, MasterAttrs, <<>>, FALSE)
    IN  IF tag # "dict" \/ again.tag # "dict"
        THEN [raised |-> TRUE, pk |-> <<>>]
        ELSE [raised |-> FALSE, pk |-> Restrict(again.ret.d, MasterPK)]

(* the add dialog is confirmed: templates.py lines 641-646 *)
CallAddRecord ==
    /\ pc = "idle"
    /\ \E r \in RawMasterRows : \E rows \in RowSeqs(PartColsOfDialog, MaxAddRows) :
         LET cleaned == clean_single_gui_record(r, MasterAttrs, <<>>, FALSE)
             key == get_pk(cleaned.ret, cleaned.tag)
         IN  /\ call' = "add_record"
             /\ rec' = cleaned.d
             /\ rec0' = r
             /\ data' = rows
             /\ entry' = cleaned.ret
             /\ msg' = <<Entry("info", "header", <<>>)>>
             /\ IF key.raised
                THEN /\ result' = Raised("AttributeError")
                     /\ master_key' = <<>>
                     /\ pc' = "done"
                ELSE /\ result' = NoResult
                     /\ master_key' = key.pk
                     /\ pc' = "add_exists"
    /\ UNCHANGED <<cleaning, master, part, part0, new_data, old_data, i, e_bound, ops>>

(* lines 647-650: the test  if (self.table & pk)  inside the try *)
AddExists ==
    /\ pc = "add_exists"
    /\ \E fault \in BOOLEAN :
         /\ ops' = Append(ops, Op("exists", "master", ~fault, <<PyDict(master_key)>>,
                                  "", ""))
         /\ IF fault
            THEN /\ msg' = Append(msg, Entry("err", "insert1", <<>>))
                 /\ pc' = "add_parts"
            ELSE IF RestrictTable(master, master_key, MasterCols, MasterAttrs) # {}
            THEN /\ msg' = Append(msg, Entry("warn", "exists", <<>>))
                 /\ pc' = "add_parts"
            ELSE /\ pc' = "add_insert1"
                 /\ UNCHANGED msg
    /\ UNCHANGED <<cleaning, master, part, part0, call, master_key, rec, rec0, data, new_data,
                   old_data, entry, i, e_bound, result>>

(* lines 651-657: insert1 of the master record *)
AddInsert1 ==
    /\ pc = "add_insert1"
    /\ \E fault \in BOOLEAN :
         LET ok == ~fault /\ CanInsertMaster(master, entry)
         IN  /\ ops' = Append(ops, Op("insert1", "master", ok, <<entry>>, "", ""))
             /\ master' = IF ok
                          THEN AddRows(master, <<entry>>, MasterCols, MasterAttrs,
                                       MasterPK)
                          ELSE master
             /\ msg' = Append(msg, Entry(IF ok THEN "ok" ELSE "err", "insert1", <<>>))
    /\ pc' = "add_parts"
    /\ UNCHANGED <<cleaning, part, part0, call, master_key, rec, rec0, data, new_data, old_data,
                   entry, i, e_bound, result>>

(* lines 659-666: insert_part_table for the part table of the dialog *)
AddParts ==
    /\ pc = "add_parts"
    /\ EnterInsertPartTable(master_key, data, msg)
    /\ UNCHANGED <<cleaning, master, part, part0, call, rec, rec0, old_data, entry, i, e_bound, ops>>

(* ------------------------------ update_table --------------------------- *)

\* FieldsToUpdate looping over every attribute of the heading
FieldsToUpdateAll(new, old) ==
    SelectSeq(MasterCols, LAMBDA f : Get(new.d, f) # Get(old.d, f))

\* the fields update_table updates, in heading order: lines 118-119
FieldsToUpdate(new, old) ==
    SelectSeq(Secondary(MasterCols, MasterPK),
              LAMBDA f : Get(new.d, f) # Get(old.d, f))

\* UtReturns handing back only the lines update_table added itself
UtReturnsOwnLines(c, log) ==
    /\ result' = Returned(SubSeq(log, Len(Msg0) + 1, Len(log)))
    /\ pc' = IF c = "update_record" THEN "upr_parts" ELSE "done"

(* update_table returns log to the caller c: to the user, or to           *)
(* update_record, which goes on with the part table                        *)
UtReturns(c, log) ==
    /\ result' = Returned(log)
    /\ pc' = IF c = "update_record" THEN "upr_parts" ELSE "done"

\* the keys update_table is called with for the record r: the key the
\* update dialog derives from the record, and the empty mapping
KeysFor(r) == {Restrict(r, MasterPK), <<>>}

(* update_table is called: lines 105-109 up to the test of the key         *)
CallUpdateTable ==
    /\ pc = "idle"
    /\ \E r \in RawMasterRows : \E pk \in KeysFor(r) :
         /\ call' = "update_table"
         /\ rec' = r
         /\ rec0' = r
         /\ master_key' = pk
         /\ msg' = Msg0
         /\ IF Values(pk) = {""}
            THEN UtReturns("update_table", Msg0)
            ELSE /\ result' = NoResult
                 /\ pc' = "ut_len"
    /\ UNCHANGED <<cleaning, master, part, part0, data, new_data, old_data, entry, i, e_bound, ops>>

(* lines 108-114: len(table & pk), then the record is cleaned *)
UtLen ==
    /\ pc = "ut_len"
    /\ \E fault \in BOOLEAN :
         LET cleaned == clean_single_gui_record(rec, MasterAttrs, <<>>, FALSE)
         IN  /\ ops' = Append(ops, Op("exists", "master", ~fault,
                                      <<PyDict(master_key)>>, "", ""))
             /\ IF fault
                THEN /\ result' = Raised("DataJointError")
                     /\ pc' = "done"
                     /\ UNCHANGED <<msg, rec, entry>>
                ELSE IF RestrictTable(master, master_key, MasterCols, MasterAttrs) = {}
                THEN /\ UtReturns(call, msg)
                     /\ UNCHANGED <<msg, rec, entry>>
                ELSE /\ rec' = cleaned.d
                     /\ entry' = cleaned.ret
                     /\ IF cleaned.tag = "str"
                        THEN /\ msg' = Append(msg, Entry("err", "coercion",
                                                         <<cleaned.ret.s>>))
                             /\ UtReturns(call, msg')
                        ELSE /\ pc' = "ut_fetch1"
                             /\ UNCHANGED <<msg, result>>
    /\ UNCHANGED <<cleaning, master, part, part0, call, master_key, rec0, data, new_data,
                   old_data, i, e_bound>>

(* line 116: old = (table & pk).fetch1() *)
UtFetch1 ==
    /\ pc = "ut_fetch1"
    /\ \E fault \in BOOLEAN :
         /\ ops' = Append(ops, Op("fetch", "master", ~fault, <<PyDict(master_key)>>,
                                  "", ""))
         /\ IF fault
            THEN /\ result' = Raised("DataJointError")
                 /\ pc' = "done"
                 /\ UNCHANGED old_data
            ELSE /\ old_data' =
                      <<PyDict(RowToDict(
                          CHOOSE row \in RestrictTable(master, master_key,
                                                       MasterCols, MasterAttrs) : TRUE,
                          MasterCols))>>
                 /\ pc' = "ut_update"
                 /\ UNCHANGED result
    /\ UNCHANGED <<cleaning, master, part, part0, call, master_key, rec, rec0, data, new_data, entry,
                   i, e_bound, msg>>

(* lines 118-127: the next _update call of the loop, or the return; a    *)
(* record cleaned to None has no new[f]: TypeError                         *)
UtUpdate ==
    /\ pc = "ut_update"
    /\ LET plan == IF entry.tag = "dict" THEN FieldsToUpdate(entry, old_data[1])
                   ELSE <<>>
       IN  IF entry.tag # "dict"
           THEN /\ result' = Raised("TypeError")
                /\ pc' = "done"
                /\ UNCHANGED <<master, msg, ops, i>>
           ELSE IF i > Len(plan)
           THEN /\ UtReturns(call, msg)
                /\ i' = 1
                /\ UNCHANGED <<master, msg, ops>>
           ELSE \E fault \in BOOLEAN :
                  LET f == plan[i]
                      v == Get(entry.d, f)
                      ok == ~fault /\ CanUpdate(master, master_key, f, v,
                                                MasterCols, MasterAttrs, MasterPK)
                  IN  /\ ops' = Append(ops, Op("update", "master", ok,
                                               <<PyDict(master_key)>>, f, v))
                      /\ master' = IF ok
                                   THEN UpdateField(master, master_key, f, v,
                                                    MasterCols, MasterAttrs)
                                   ELSE master
                      /\ msg' = Append(msg, Entry(IF ok THEN "ok" ELSE "err",
                                                  "update", <<f>>))
                      /\ i' = i + 1
                      /\ UNCHANGED <<pc, result>>
    /\ UNCHANGED <<cleaning, part, part0, call, master_key, rec, rec0, data, new_data, old_data,
                   entry, e_bound>>

(* ------------------------------ update_record ------------------------- *)

(* the update dialog is confirmed: templates.py lines 702-704; the key is  *)
(* taken from the record as submitted, update_table is entered             *)
CallUpdateRecord ==
    /\ pc = "idle"
    /\ \E r \in RawMasterRows : \E rows \in RowSeqs(PartColsOfDialog, MaxAddRows) :
         /\ call' = "update_record"
         /\ rec' = r
         /\ rec0' = r
         /\ data' = rows
         /\ master_key' = Restrict(r, MasterPK)
         /\ msg' = Msg0
         /\ IF Values(Restrict(r, MasterPK)) = {""}
            THEN UtReturns("update_record", Msg0)
            ELSE /\ result' = NoResult
                 /\ pc' = "ut_len"
    /\ UNCHANGED <<cleaning, master, part, part0, new_data, old_data, entry, i,
                   e_bound, ops>>

(* lines 706-711: update_part_table for the part table of the dialog, with *)
(* the key and the log of the master update                                *)
UprParts ==
    /\ pc = "upr_parts"
    /\ new_data' = clean_gui_data(PartAttrs, data, master_key, TRUE).items
    /\ pc' = "upt_fetch"
    /\ UNCHANGED <<cleaning, master, part, part0, call, master_key, rec, rec0, data,
                   old_data, entry, i, e_bound, msg, ops, result>>

Next ==
    \/ CallUpdatePartTable
    \/ UptFetch
    \/ UptDelete
    \/ UptInsert
    \/ UptInsert1
    \/ UptUpdate
    \/ UptReturn
    \/ CallInsertPartTable
    \/ IptInsert
    \/ IptInsert1
    \/ CallAddRecord
    \/ AddExists
    \/ AddInsert1
    \/ AddParts
    \/ CallUpdateTable
    \/ UtLen
    \/ UtFetch1
    \/ UtUpdate
    \/ CallUpdateRecord
    \/ UprParts

Spec == Init /\ [][Next]_vars

(* ------------------------------ the filters ---------------------------- *)
(* templates.py: the Filter objects of a table block live in the server    *)
(* process, one restrictor each (lines 89-90), whoever is browsing.  The   *)
(* callback update_table_data receives the values of all the filters of    *)
(* the browser session that triggered it (lines 445-456).                  *)

Sessions == {"A", "B"}

\* the filters of the table block, in the order of the OrderedDict
FilterIds == <<"name-filter", "age-filter">>

\* the attribute a filter restricts by (field_name)
FieldOf(f) == IF f = "name-filter" THEN "name" ELSE "age"

\* the rows of the table the block shows
FilterRows ==
    {[subject_id |-> "i:7", name |-> "b", age |-> "i:5"],
     [subject_id |-> "i:8", name |-> "b", age |-> "i:7"],
     [subject_id |-> "i:1", name |-> "5", age |-> "i:5"]}

\* Filter.options: the values of the field in the table, and 'All'
Options(f) == {row[FieldOf(f)] : row \in FilterRows} \cup {"All"}

\* the query_function of a single-value filter: the restriction the value
\* stands for, no restriction for 'All'
query_function(f, values) ==
    IF values = "All" THEN <<>> ELSE <<<<FieldOf(f), values>>>>

\* Filter.update_restrictor of filter f, on the restrictors r
update_restrictor(r, f, values) == [r EXCEPT ![f] = query_function(f, values)]

\* FilterCollection.apply_filters: table & dj.AndList(restrictors)
apply_filters(tbl, r) ==
    {row \in tbl : \A f \in DOMAIN r : Matches(row, r[f], MasterCols, MasterAttrs)}

InitFilters ==
    /\ master = FilterRows
    /\ part = {}
    /\ part0 = {}
    /\ call = "update_table_data"
    /\ pc = "idle"
    /\ master_key = <<>>
    /\ rec = <<>>
    /\ rec0 = <<>>
    /\ data = <<>>
    /\ new_data = <<>>
    /\ old_data = <<>>
    /\ entry = PyDict(<<>>)
    /\ i = 1
    /\ e_bound = FALSE
    /\ msg = <<>>
    /\ ops = <<>>
    /\ result = NoResult
    /\ schema = "none"
    /\ add_key = FALSE
    /\ clean_d = NoClean
    /\ clean_d2 = NoClean
    /\ entry_pk = NoKey
    /\ other = <<>>
    /\ restrictor = [f \in SeqToSet(FilterIds) |-> query_function(f, "All")]
    /\ filter_values = [s \in Sessions |-> [f \in SeqToSet(FilterIds) |-> "All"]]
    /\ table_data = NoData
    /\ first = NoFirst
    /\ fault_at = 0

\* what update_table_data leaves alone
beside == <<part, part0, call, pc, master_key, rec, rec0, data, new_data, old_data,
            entry, i, e_bound, msg, ops, result, schema, add_key, clean_d,
            clean_d2, entry_pk, other, first, fault_at>>

(* update_table_data triggered by a filter of session s: lines 481-485.    *)
(* filter_values_dict holds the values of all the filters of the session;  *)
(* only the restrictor of the triggering filter is set from it.            *)
UpdateTableDataFilter ==
    /\ call = "update_table_data"
    /\ \E s \in Sessions : \E f \in SeqToSet(FilterIds) :
       \E v \in Options(f) \ {filter_values[s][f]} :
         LET filter_values_dict == [filter_values[s] EXCEPT ![f] = v]
             r == update_restrictor(restrictor, f, filter_values_dict[f])
         IN  /\ filter_values' = [filter_values EXCEPT ![s] = filter_values_dict]
             /\ restrictor' = r
             /\ table_data' = [session |-> s, trigger |-> f,
                                rows |-> apply_filters(master, r)]
    /\ UNCHANGED <<beside, master>>

(* update_table_data triggered by the close button of the add or update    *)
(* dialog of session s: lines 477-480, the whole table is fetched.         *)
UpdateTableDataClose ==
    /\ call = "update_table_data"
    /\ \E s \in Sessions :
         table_data' = [session |-> s, trigger |-> "close", rows |-> master]
    /\ UNCHANGED <<beside, master, restrictor, filter_values>>

(* update_table_data triggered by the confirmed delete of a selected row   *)
(* of session s: lines 462-476.                                            *)
UpdateTableDataDelete ==
    /\ call = "update_table_data"
    /\ \E s \in Sessions : \E row \in master : \E fault \in BOOLEAN :
         /\ master' = IF fault THEN master ELSE master \ {row}
         /\ table_data' = [session |-> s, trigger |-> "delete", rows |-> master']
    /\ UNCHANGED <<beside, restrictor, filter_values>>

NextFilters ==
    \/ UpdateTableDataFilter
    \/ UpdateTableDataClose
    \/ UpdateTableDataDelete

SpecFilters == InitFilters /\ [][NextFilters]_vars

(* ------------------------------ another actor -------------------------- *)
(* update_part_table reads the part rows once (line 141) and writes in     *)
(* lines 153-207; the database is shared, and nothing in those lines locks *)
(* the rows or opens a transaction.  Another actor may write to the part   *)
(* rows of the same master key after the fetch and before the first write  *)
(* of the call.                                                            *)

\* the note another actor writes
OtherNote == "x"

\* the part rows another actor may insert for master key 7
OtherRows == {StoredPartRow(s, OtherNote, "None") : s \in {"i:1", "i:2"}}

\* one write of another actor: it inserts a row, changes the note of a
\* stored row, or deletes a stored row
OtherWrite ==
    /\ call = "update_part_table"
    /\ pc = "upt_delete"
    /\ Len(other) < MaxOtherWrites
    /\ \/ \E r \in OtherRows :
             /\ \A q \in part : ~SamePK(q, r, PartPK)
             /\ part' = part \cup {r}
             /\ other' = Append(other, [kind |-> "insert", row |-> r,
                                        at |-> Len(ops)])
       \/ \E q \in part :
             /\ q.note # OtherNote
             /\ part' = (part \ {q}) \cup {[q EXCEPT !.note = OtherNote]}
             /\ other' = Append(other, [kind |-> "change",
                                        row |-> [q EXCEPT !.note = OtherNote],
                                        at |-> Len(ops)])
       \/ \E q \in part :
             /\ part' = part \ {q}
             /\ other' = Append(other, [kind |-> "delete", row |-> q,
                                        at |-> Len(ops)])
    /\ UNCHANGED <<schema, add_key, clean_d, clean_d2, entry_pk, restrictor,
                   filter_values, table_data, first, fault_at, master, part0, call, pc, master_key, rec, rec0, data, new_data, old_data, entry, i,
                   e_bound, msg, ops, result>>

NextConcurrent ==
    \/ CallUpdatePartTable
    \/ UptFetch
    \/ UptDelete
    \/ UptInsert
    \/ UptInsert1
    \/ UptUpdate
    \/ UptReturn
    \/ OtherWrite

SpecConcurrent == Init /\ [][NextConcurrent]_vars

(* ------------------------------ the older copy ------------------------- *)
(* src/dj_dashboard/callback_utils.py holds an older update_part_table.    *)
(* Its diff (lines 119-127, 139-141, 159-171) has the text of the newer    *)
(* one and is modelled by the same operators; its cleaning, its retry loop *)
(* and its update loop differ.  The older function runs first, the table   *)
(* is put back, and the newer function runs on the same rows, with the     *)
(* same database operation failing.                                        *)

\* longest row list submitted to the two copies
MaxCopyRows == 2

\* the last database operation that may be made to fail
MaxFaultAt == 4

\* part rows that carry the master-key column, in heading order
KeyedPartRows ==
    {<<<<"subject_id", "7">>>> \o r : r \in RawPartRows(PartColsOfDialog)}

KeyedRowSeqs == UNION {[1..n -> KeyedPartRows] : n \in 0..MaxCopyRows}

InitCopies ==
    /\ master = StoredMaster
    /\ part \in StoredParts
    /\ part0 = part
    /\ call = "none"
    /\ pc = "dj_idle"
    /\ master_key = <<>>
    /\ rec = <<>>
    /\ rec0 = <<>>
    /\ data = <<>>
    /\ new_data = <<>>
    /\ old_data = <<>>
    /\ entry = PyDict(<<>>)
    /\ i = 1
    /\ e_bound = FALSE
    /\ msg = <<>>
    /\ ops = <<>>
    /\ result = NoResult
    /\ schema = "none"
    /\ add_key = FALSE
    /\ clean_d = NoClean
    /\ clean_d2 = NoClean
    /\ entry_pk = NoKey
    /\ other = <<>>
    /\ restrictor = <<>>
    /\ filter_values = <<>>
    /\ table_data = NoData
    /\ first = NoFirst
    /\ fault_at \in 0..MaxFaultAt

\* the database operation about to be issued is the one that fails
FaultNow == Len(ops) + 1 = fault_at

\* what the two copies leave alone
apart == <<master, part0, rec, rec0, entry, e_bound, schema, add_key, clean_d,
           clean_d2, entry_pk, other, restrictor, filter_values, table_data,
           fault_at>>

(* the older update_part_table is called: lines 104-112 *)
DjCallUpdatePartTable ==
    /\ pc = "dj_idle"
    /\ \E rows \in KeyedRowSeqs :
         LET cleaned == dj_clean_gui_data(PartAttrs, rows, Key7)
         IN  /\ call' = "dj_update_part_table"
             /\ master_key' = Key7
             /\ data' = rows
             /\ msg' = Msg0
             /\ new_data' = cleaned.items
             /\ IF cleaned.tag = "raise"
                THEN /\ result' = Raised(KeyError)
                     /\ pc' = "dj_return"
                ELSE /\ result' = NoResult
                     /\ pc' = "dj_fetch"
    /\ UNCHANGED <<apart, part, old_data, i, ops, first>>

(* lines 114-124 of the older copy: fetch, compare, project to the keys *)
DjFetch ==
    /\ pc = "dj_fetch"
    /\ LET old == FetchPart(part, master_key)
       IN  /\ ops' = Append(ops, Op("fetch", "part", ~FaultNow, <<>>, "", ""))
           /\ IF FaultNow
              THEN /\ result' = Raised("DataJointError")
                   /\ pc' = "dj_return"
                   /\ UNCHANGED <<old_data, msg>>
              ELSE /\ old_data' = old
                   /\ IF ListEq(new_data, old)
                      THEN /\ msg' = Append(msg, Entry("info", "unchanged", <<>>))
                           /\ result' = Returned(msg')
                           /\ pc' = "dj_return"
                      ELSE /\ pc' = "dj_delete"
                           /\ UNCHANGED <<msg, result>>
    /\ UNCHANGED <<apart, part, call, master_key, data, new_data, i, first>>

(* lines 126-136 of the older copy: the delete step *)
DjDelete ==
    /\ pc = "dj_delete"
    /\ LET todo == pks_to_be_deleted(old_data, new_data, PartPK)
       IN  IF todo = <<>>
           THEN UNCHANGED <<part, msg, ops>>
           ELSE /\ ops' = Append(ops, Op("delete", "part", ~FaultNow, todo, "", ""))
                /\ IF FaultNow
                   THEN /\ msg' = Append(msg, Entry("err", "delete", <<>>))
                        /\ UNCHANGED part
                   ELSE /\ part' = part \ RestrictTableList(part, todo, PartCols,
                                                            PartAttrs)
                        /\ msg' = Append(msg, Entry("ok", "delete", <<>>))
    /\ pc' = "dj_insert"
    /\ UNCHANGED <<apart, call, master_key, data, new_data, old_data, i, result,
                   first>>

(* lines 138-148 of the older copy: the batch insert *)
DjInsert ==
    /\ pc = "dj_insert"
    /\ LET todo == new_records(old_data, new_data, PartPK)
       IN  IF todo = <<>>
           THEN /\ pc' = "dj_update"
                /\ UNCHANGED <<part, msg, ops, i>>
           ELSE LET ok == ~FaultNow /\ CanInsertPart(master, part, todo, FALSE)
                IN  /\ ops' = Append(ops, Op("insert", "part", ok, todo, "", ""))
                    /\ IF ok
                       THEN /\ part' = AddRows(part, todo, PartCols, PartAttrs,
                                               PartPK)
                            /\ msg' = Append(msg, Entry("ok", "insert", <<>>))
                            /\ pc' = "dj_update"
                            /\ UNCHANGED i
                       ELSE /\ i' = 1
                            /\ pc' = "dj_insert1"
                            /\ UNCHANGED <<part, msg>>
    /\ UNCHANGED <<apart, call, master_key, data, new_data, old_data, result, first>>

(* lines 149-156 of the older copy: one pass of the per-record retry loop; *)
(* the line appended after a successful insert1 is the error line too      *)
DjInsert1 ==
    /\ pc = "dj_insert1"
    /\ LET todo == new_records(old_data, new_data, PartPK)
           r == todo[i]
           ok == ~FaultNow /\ CanInsertPart(master, part, <<r>>, FALSE)
       IN  /\ ops' = Append(ops, Op("insert1", "part", ok, <<r>>, "", ""))
           /\ part' = IF ok
                      THEN AddRows(part, <<r>>, PartCols, PartAttrs, PartPK)
                      ELSE part
           /\ msg' = Append(msg, Entry("err", "insert1", RefOf(r)))
           /\ IF i < Len(todo)
              THEN /\ i' = i + 1
                   /\ pc' = "dj_insert1"
              ELSE /\ i' = 1
                   /\ pc' = "dj_update"
    /\ UNCHANGED <<apart, call, master_key, data, new_data, old_data, result, first>>

(* lines 158-180 of the older copy: the next _update call of the update    *)
(* step; the handler of a failed update assigns the line to mag, not msg   *)
DjUpdate ==
    /\ pc = "dj_update"
    /\ LET plan == UpdatePlan(old_data, new_data, PartPK)
       IN  IF i > Len(plan)
           THEN /\ result' = Returned(msg)
                /\ pc' = "dj_return"
                /\ i' = 1
                /\ UNCHANGED <<part, msg, ops>>
           ELSE LET u == plan[i]
                    ok == ~FaultNow /\ CanUpdate(part, u.pk.d, u.f, u.new_v,
                                                 PartCols, PartAttrs, PartPK)
                IN  /\ ops' = Append(ops, Op("update", "part", ok, <<u.pk>>,
                                             u.f, u.new_v))
                    /\ part' = IF ok
                               THEN UpdateField(part, u.pk.d, u.f, u.new_v,
                                                PartCols, PartAttrs)
                               ELSE part
                    /\ msg' = IF ok
                              THEN Append(msg, Entry("ok", "update",
                                          RefOf(u.pk) \o <<u.f, u.old_v, u.new_v>>))
                              ELSE msg
                    /\ i' = i + 1
                    /\ UNCHANGED <<pc, result>>
    /\ UNCHANGED <<apart, call, master_key, data, new_data, old_data, first>>

(* line 182 of the older copy: return msg.  What the call did is kept and  *)
(* the part table is put back for the newer copy.                          *)
DjReturn ==
    /\ pc = "dj_return"
    /\ first' = [done |-> TRUE, kind |-> result.kind, ops |-> ops, msg |-> msg,
                 part |-> part]
    /\ part' = part0
    /\ ops' = <<>>
    /\ msg' = <<>>
    /\ new_data' = <<>>
    /\ old_data' = <<>>
    /\ i' = 1
    /\ result' = NoResult
    /\ pc' = "dj_done"
    /\ UNCHANGED <<apart, call, master_key, data>>

(* the newer update_part_table is called with the same rows: lines 132-139 *)
CopyCallUpdatePartTable ==
    /\ pc = "dj_done"
    /\ LET cleaned == clean_gui_data(PartAttrs, data, Key7, TRUE)
       IN  /\ call' = "update_part_table"
           /\ msg' = Msg0
           /\ IF cleaned.tag = "str"
              THEN /\ new_data' = <<>>
                   /\ result' = Returned(<<Entry("err", "coercion", <<cleaned.s>>)>>)
                   /\ pc' = "done"
              ELSE /\ new_data' = cleaned.items
                   /\ result' = NoResult
                   /\ pc' = "upt_fetch"
    /\ UNCHANGED <<apart, part, master_key, data, old_data, i, ops, first>>

\* the database answers operation o of the newer copy as its rules say
Natural(o) ==
    CASE o.op \in {"insert", "insert1"} -> CanInsertPart(master, part, o.arg, FALSE)
      [] o.op = "update" -> CanUpdate(part, o.arg[1].d, o.f, o.v, PartCols,
                                      PartAttrs, PartPK)
      [] OTHER -> TRUE

\* the step issued no operation, or one that failed exactly when the
\* database rules or the fault of this run make it fail
AsPlanned ==
    ops' # ops
    => (ops'[Len(ops')].ok <=> (Natural(ops'[Len(ops')]) /\ Len(ops') # fault_at))

CopyFetch == UptFetch /\ AsPlanned

CopyDelete == UptDelete /\ AsPlanned

CopyInsert == UptInsert /\ AsPlanned

CopyInsert1 == UptInsert1 /\ AsPlanned

CopyUpdate == UptUpdate /\ AsPlanned

NextCopies ==
    \/ DjCallUpdatePartTable
    \/ DjFetch
    \/ DjDelete
    \/ DjInsert
    \/ DjInsert1
    \/ DjUpdate
    \/ DjReturn
    \/ CopyCallUpdatePartTable
    \/ CopyFetch
    \/ CopyDelete
    \/ CopyInsert
    \/ CopyInsert1
    \/ CopyUpdate
    \/ UptReturn

SpecCopies == InitCopies /\ [][NextCopies]_vars

(* ------------------------------ cleaning one record -------------------- *)
(* clean_single_gui_record and get_pk by themselves: a record is drawn,    *)
(* cleaned, and its result is cleaned again (as get_pk does with the entry *)
(* add_record hands it).                                                   *)

AttrsOf(sc) ==
    CASE sc = "master" -> MasterAttrs
      [] sc = "part" -> PartAttrs
      [] OTHER -> WideAttrs

PKOf(sc) ==
    CASE sc = "master" -> MasterPK
      [] sc = "part" -> PartPK
      [] OTHER -> WidePK

RawDay == {"", "2024-01-15", "15/01/2024"}

RawSeen == {"", "2024-01-15 10:00:00", "2024-01-15T10:00:00", "zz"}

RawStamp == {"", "2024-01-15T10:00:00", "zz"}

RawWeight == {"", "5", "zz"}

\* records over the wide heading, in heading order
RawWideRows ==
    {<<<<"id", a>>, <<"label", b>>, <<"day", c>>, <<"seen", d>>,
       <<"stamp", e>>, <<"weight", f>>, <<"kind", g>>>> :
        a \in {"", "7", "zz"}, b \in {"", "b"}, c \in RawDay, d \in RawSeen,
        e \in RawStamp, f \in RawWeight, g \in {"", "a"}}

\* a record, and the record with a key that is no attribute of the heading
WithExtraKey(rows) == rows \cup {r \o <<<<"extra", "x">>>> : r \in rows}

\* part rows as the dialog lists them, and with a subject_id of their own
RawKeyedPartRows ==
    LET rows == UNION {RawPartRows(o) : o \in Orders}
    IN  rows \cup {<<<<"subject_id", v>>>> \o r : v \in {"", "8"}, r \in rows}

\* the records cleaned against the heading sc
RawRowsOf(sc) ==
    CASE sc = "master" -> RawMasterRows
      [] sc = "part" -> RawKeyedPartRows
      [] OTHER -> WithExtraKey(RawWideRows)

\* the master keys a record of the heading sc is cleaned with
MasterKeysOf(sc) ==
    CASE sc = "master" -> {<<>>}
      [] sc = "part" -> {<<>>, Key7}
      [] OTHER -> {<<>>, <<<<"id", "i:7">>>>}

InitClean ==
    /\ master = StoredMaster
    /\ part = {}
    /\ part0 = {}
    /\ call = "clean_single_gui_record"
    /\ pc = "clean"
    /\ schema \in {"master", "part", "wide"}
    /\ rec0 \in RawRowsOf(schema)
    /\ rec = rec0
    /\ master_key \in MasterKeysOf(schema)
    /\ add_key \in (IF master_key = <<>> THEN {FALSE} ELSE BOOLEAN)
    /\ data = <<>>
    /\ new_data = <<>>
    /\ old_data = <<>>
    /\ entry = PyDict(<<>>)
    /\ i = 1
    /\ e_bound = FALSE
    /\ msg = <<>>
    /\ ops = <<>>
    /\ result = NoResult
    /\ clean_d = NoClean
    /\ clean_d2 = NoClean
    /\ entry_pk = NoKey
    /\ other = <<>>
    /\ restrictor = <<>>
    /\ filter_values = <<>>
    /\ table_data = NoData
    /\ first = NoFirst
    /\ fault_at = 0

\* the variables the cleaning of a record leaves alone
others == <<master, part, part0, call, master_key, rec0, data, new_data, old_data,
            entry, i, e_bound, msg, ops, result, schema, add_key, aside>>

(* clean_single_gui_record(d, attrs, master_key, add_master_key) *)
Clean ==
    /\ pc = "clean"
    /\ clean_d' = clean_single_gui_record(rec0, AttrsOf(schema), master_key, add_key)
    /\ rec' = clean_d'.d
    /\ pc' = "cleaned"
    /\ UNCHANGED <<others, clean_d2, entry_pk>>

(* clean_single_gui_record given the record it returned *)
Reclean ==
    /\ pc = "cleaned"
    /\ clean_d.tag = "dict"
    /\ clean_d2' = clean_single_gui_record(clean_d.ret.d, AttrsOf(schema),
                                           master_key, add_key)
    /\ pc' = "recleaned"
    /\ UNCHANGED <<others, rec, clean_d, entry_pk>>

(* get_pk(entry) of the master table: templates.py lines 339-344 *)
GetPk ==
    /\ pc \in {"cleaned", "recleaned"}
    /\ schema = "master"
    /\ entry_pk' = get_pk(clean_d.ret, clean_d.tag)
    /\ pc' = "keyed"
    /\ UNCHANGED <<others, rec, clean_d, clean_d2>>

NextClean ==
    \/ Clean
    \/ Reclean
    \/ GetPk

SpecClean == InitClean /\ [][NextClean]_vars

(* ------------------------------ properties ----------------------------- *)

IsWrite(o) == o.op \in {"insert", "insert1", "delete", "update"}

NoWrites == \A j \in DOMAIN ops : ~IsWrite(ops[j])

\* the submitted part row d fails coercion
RowFailsCoercion(d) ==
    clean_single_gui_record(d, PartAttrs, Key7, TRUE).tag = "str"

\* the call in progress has returned
HasReturned == pc = "done" /\ result.kind = "return"

\* two rows have the same primary key
SameKey(x, y) == \A k \in PartPK : Get(x.d, k) = Get(y.d, k)

\* every element of xs is in ys and conversely
SameRows(xs, ys) ==
    /\ \A a \in DOMAIN xs : \E b \in DOMAIN ys : PyEq(xs[a], ys[b])
    /\ \A b \in DOMAIN ys : \E a \in DOMAIN xs : PyEq(xs[a], ys[b])

(* C1.  No entry point ever raises to its caller: add_record, update_table,*)
(* insert_part_table and update_part_table always return a log.            *)
C1_NeverRaises == result.kind # "raise"

(* C2.  If a submitted row fails coercion, update_part_table returns only  *)
(* the coercion error and issues no delete, insert or update.              *)
C2_CoercionErrorAborts ==
    (/\ call = "update_part_table"
     /\ pc = "done"
     /\ \E j \in DOMAIN data : RowFailsCoercion(data[j]))
    => /\ result.kind = "return"
       /\ Len(result.val) = 1
       /\ result.val[1].what = "coercion"
       /\ NoWrites

\* the write o was needed: the row or field did not hold the submitted value
NeededWrite(o) ==
    CASE o.op = "delete" ->
           \A a \in DOMAIN o.arg : \A n \in DOMAIN new_data :
              ~SameKey(o.arg[a], new_data[n])
      [] o.op \in {"insert", "insert1"} ->
           \A a \in DOMAIN o.arg : \A n \in DOMAIN old_data :
              ~SameKey(o.arg[a], old_data[n])
      [] o.op = "update" ->
           \A n \in DOMAIN new_data : \A m \in DOMAIN old_data :
              (SameKey(new_data[n], o.arg[1]) /\ SameKey(old_data[m], o.arg[1]))
              => Get(new_data[n].d, o.f) # Get(old_data[m].d, o.f)
      [] OTHER -> TRUE

(* C3.  When every submitted row passes coercion, the keys are unique and  *)
(* every database operation succeeds, update_part_table leaves exactly the *)
(* coerced submitted rows stored for the master key, and it wrote no row   *)
(* or field that already held the submitted value.                         *)
C3_StorageInLine ==
    (/\ call = "update_part_table"
     /\ HasReturned
     /\ ~HasStr(new_data)
     /\ \A a, b \in DOMAIN new_data : a # b => ~SameKey(new_data[a], new_data[b])
     /\ \A j \in DOMAIN ops : ops[j].ok)
    => /\ SameRows(FetchPart(part, master_key), new_data)
       /\ \A j \in DOMAIN ops : NeededWrite(ops[j])

\* C3 for rows submitted with their columns in heading order
C3_InHeadingOrder ==
    (\A j \in DOMAIN data : [k \in DOMAIN data[j] |-> data[j][k][1]] = PartColsOfDialog)
    => C3_StorageInLine

Count(op, tbl) ==
    Cardinality({j \in DOMAIN ops : ops[j].op = op /\ ops[j].tbl = tbl})

StepRank(what) ==
    CASE what = "delete" -> 1
      [] what = "insert" -> 2
      [] what = "insert1" -> 3
      [] what = "update" -> 4
      [] OTHER -> 0

(* C4.  Within one update_part_table call the database operations come in  *)
(* the order delete, batch insert, per-record retries, field updates: no   *)
(* update is issued before every retry of a failed batch insert was made,  *)
(* and the log lines come in the same order.                               *)
C4_StepsOrdered ==
    call = "update_part_table" =>
      /\ \A a, b \in DOMAIN ops :
           a < b => StepRank(ops[a].op) <= StepRank(ops[b].op)
      /\ Count("delete", "part") <= 1
      /\ Count("insert", "part") <= 1
      /\ \A a, b \in DOMAIN ops :
           (ops[a].op = "insert" /\ ~ops[a].ok /\ ops[b].op = "update")
           => Count("insert1", "part") = Len(ops[a].arg)
      /\ \A a, b \in DOMAIN msg :
           a < b => StepRank(msg[a].what) <= StepRank(msg[b].what)

\* a call that deleted, tried the batch insert, retried and updated
C4_Witness ==
    /\ call = "update_part_table"
    /\ HasReturned
    /\ Count("delete", "part") = 1
    /\ Count("insert1", "part") >= 1
    /\ Count("update", "part") >= 1

\* the log line of the failed write ops[j] is a failure line of its step
FailureLogged(j) ==
    /\ Len(msg) > ops[j].at
    /\ msg[ops[j].at + 1].kind = "err"
    /\ msg[ops[j].at + 1].what = ops[j].op

\* no write made the call raise, and no step of a returned call was
\* skipped, whatever failed before it
LaterStepsRun ==
    /\ result.kind = "raise" => (ops = <<>> \/ ~IsWrite(ops[Len(ops)]))
    /\ (call \in {"update_part_table", "update_record"} /\ HasReturned
           /\ ~ListEq(new_data, old_data))
       => /\ Count("delete", "part") =
               (IF pks_to_be_deleted(old_data, new_data, PartPK) = <<>> THEN 0 ELSE 1)
          /\ Count("insert", "part") =
               (IF new_records(old_data, new_data, PartPK) = <<>> THEN 0 ELSE 1)
          /\ Count("update", "part") = Len(UpdatePlan(old_data, new_data, PartPK))
    /\ (call \in {"insert_part_table", "add_record"} /\ HasReturned)
       => Count("insert", "part") = 1
    /\ (call = "update_table" /\ HasReturned /\ old_data # <<>>)
       => Count("update", "master") = Len(FieldsToUpdate(entry, old_data[1]))

\* every row of a failed batch insert of a returned call was retried
BatchRetried ==
    HasReturned =>
      \A j \in DOMAIN ops :
         (ops[j].op = "insert" /\ ~ops[j].ok)
         => Count("insert1", "part") = Len(ops[j].arg)

(* C5 as claimed.  Every failing write, the batch insert included, has its *)
(* failure line in the log, and every later step is still executed.        *)
C5_EveryFailureLogged ==
    /\ \A j \in DOMAIN ops : (IsWrite(ops[j]) /\ ~ops[j].ok) => FailureLogged(j)
    /\ LaterStepsRun

(* C5, amended.  A failing write never aborts the call: every later step   *)
(* is still executed; a failing batch delete, per-record retry or field    *)
(* update appends its failure line; a failing batch insert appends no line *)
(* of its own, and every row of the batch is retried with insert1.         *)
C5_FailuresLoggedBatchRetried ==
    /\ \A j \in DOMAIN ops :
         (IsWrite(ops[j]) /\ ~ops[j].ok /\ ops[j].op # "insert") => FailureLogged(j)
    /\ BatchRetried
    /\ LaterStepsRun

\* a returned update_part_table call whose batch insert and a retry failed
\* and whose update step then ran
C5_Witness ==
    /\ call = "update_part_table"
    /\ HasReturned
    /\ \E j \in DOMAIN ops : ops[j].op = "insert" /\ ~ops[j].ok
    /\ \E j \in DOMAIN ops : ops[j].op = "insert1" /\ ~ops[j].ok
    /\ \E j \in DOMAIN ops : ops[j].op = "update"

\* same content, same order
SameList(xs, ys) ==
    /\ Len(xs) = Len(ys)
    /\ \A k \in DOMAIN xs : SameKey(xs[k], ys[k]) /\ DictEq(xs[k].d, ys[k].d)

\* the three lists of the diff of xs against itself are empty
SelfDiffEmpty(xs) ==
    /\ pks_to_be_deleted(xs, xs, PartPK) = <<>>
    /\ new_records(xs, xs, PartPK) = <<>>
    /\ records_to_be_updated(xs, xs, PartPK) = <<>>

\* the rows were fetched by the update_part_table call in progress
Fetched ==
    /\ call = "update_part_table"
    /\ ops # <<>>
    /\ ops[1].ok

(* C6.  When the coerced submitted rows equal the stored rows of the       *)
(* master key, same content and same order, update_part_table appends the  *)
(* 'data unchanged' line and issues no delete, insert or update; and the   *)
(* diff of a row list against itself is empty.                             *)
C6_UnchangedShortCircuit ==
    /\ (Fetched /\ ~HasStr(new_data) /\ SameList(new_data, old_data))
       => /\ HasReturned
          /\ result.val = Append(Msg0, Entry("info", "unchanged", <<>>))
          /\ NoWrites
          /\ part = part0
    /\ (Fetched /\ ~HasStr(new_data))
       => SelfDiffEmpty(old_data) /\ SelfDiffEmpty(new_data)

\* an unchanged, non-empty row list submitted with score listed before note
C6_Witness ==
    /\ Fetched
    /\ HasReturned
    /\ new_data # <<>>
    /\ SameList(new_data, old_data)
    /\ \E j \in DOMAIN data : data[j][2][1] = "score"

\* the positions of new_data whose key no old row has
AbsentFromOld == {n \in DOMAIN new_data :
                    \A m \in DOMAIN old_data : ~SameKey(new_data[n], old_data[m])}

\* the k-th smallest element of the set of positions S
Kth(S, k) == CHOOSE n \in S : Cardinality({x \in S : x < n}) = k - 1

\* the diff was computed: the rows were fetched and differ
Diffed == Fetched /\ ~HasStr(new_data) /\ ~ListEq(new_data, old_data)

(* C7.  toDelete holds exactly the keys of old rows that no new row has,   *)
(* and toInsert exactly the new rows whose key no old row has, in the      *)
(* order of the new rows; the delete and the insert are issued for them.   *)
C7_DeleteInsertExact ==
    Diffed =>
      LET del == pks_to_be_deleted(old_data, new_data, PartPK)
          ins == new_records(old_data, new_data, PartPK)
      IN  /\ \A m \in DOMAIN old_data :
                (\A n \in DOMAIN new_data : ~SameKey(old_data[m], new_data[n]))
                <=> (\E k \in DOMAIN del : SameKey(del[k], old_data[m]))
          /\ \A k \in DOMAIN del :
                /\ Keys(del[k].d) = PartPK
                /\ \E m \in DOMAIN old_data : SameKey(del[k], old_data[m])
          /\ Len(ins) = Cardinality(AbsentFromOld)
          /\ \A k \in DOMAIN ins : ins[k] = new_data[Kth(AbsentFromOld, k)]
          /\ \A j \in DOMAIN ops :
                /\ ops[j].op = "delete" => ops[j].arg = del
                /\ ops[j].op = "insert" => ops[j].arg = ins

\* a call that deleted a key and inserted the second of two submitted rows
C7_Witness ==
    /\ Diffed
    /\ \E j \in DOMAIN ops : ops[j].op = "delete"
    /\ \E j \in DOMAIN ops : ops[j].op = "insert" /\ Len(ops[j].arg) = 1
    /\ Len(new_data) = 2
    /\ AbsentFromOld = {2}

\* the first old row with the key of x
FirstOld(x) ==
    old_data[CHOOSE m \in DOMAIN old_data :
               /\ SameKey(old_data[m], x)
               /\ \A q \in DOMAIN old_data : SameKey(old_data[q], x) => m <= q]

\* the positions of new_data whose key an old row has and whose non-key
\* content differs from the first old row with that key
ChangedInNew ==
    {n \in DOMAIN new_data :
       /\ \E m \in DOMAIN old_data : SameKey(new_data[n], old_data[m])
       /\ \E c \in SeqToSet(PartCols) \ PartPK :
             Get(new_data[n].d, c) # Get(FirstOld(new_data[n]).d, c)}

(* C8.  toUpdate holds exactly the new rows whose key an old row has and   *)
(* whose non-key content differs from that old row (the first with the     *)
(* key); a new row identical to its old row causes no update; the update   *)
(* step compares with the first old row of the key.                        *)
C8_UpdateExact ==
    Diffed =>
      LET upd == records_to_be_updated(old_data, new_data, PartPK)
      IN  /\ Len(upd) = Cardinality(ChangedInNew)
          /\ \A k \in DOMAIN upd : upd[k] = new_data[Kth(ChangedInNew, k)]
          /\ \A j \in DOMAIN ops :
                ops[j].op = "update"
                => \E n \in ChangedInNew : SameKey(new_data[n], ops[j].arg[1])
          /\ \A k \in DOMAIN msg :
                msg[k].what = "update"
                => \E n \in ChangedInNew :
                      /\ msg[k].ref[1] = Get(new_data[n].d, "session")
                      /\ msg[k].ref[3] = Get(FirstOld(new_data[n]).d, msg[k].ref[2])

\* two rows with stored keys were submitted, one identical to its stored
\* row and one changed, and an update was issued
C8_Witness ==
    /\ Diffed
    /\ Len(new_data) = 2
    /\ Cardinality(ChangedInNew) = 1
    /\ \A n \in DOMAIN new_data : \E m \in DOMAIN old_data :
          SameKey(new_data[n], old_data[m])
    /\ \E j \in DOMAIN ops : ops[j].op = "update"

(* C9.  Adding a record whose primary key already exists sends no row to   *)
(* the database with an insert (single-row or batch) during that add call, *)
(* leaves the database unchanged and logs the 'record exists' warning.     *)
C9_AddExistingWritesNothing ==
    (/\ call = "add_record"
     /\ \E j \in DOMAIN ops : /\ ops[j].op = "exists"
                              /\ ops[j].ok
                              /\ RestrictTable(StoredMaster, ops[j].arg[1].d,
                                               MasterCols, MasterAttrs) # {})
    => /\ \E k \in DOMAIN msg : msg[k].what = "exists" /\ msg[k].kind = "warn"
       /\ \A j \in DOMAIN ops :
             ops[j].op \in {"insert", "insert1"} => ops[j].arg = <<>>
       /\ part = part0
       /\ master = StoredMaster

(* C10.  After a failed batch insert every row is tried once with insert1, *)
(* in row order, and each try appends one log line that says success if    *)
(* and only if that row's own insert1 succeeded.                           *)
C10_RetryLoggedFaithfully ==
    /\ BatchRetried
    /\ \A j \in DOMAIN ops :
         (ops[j].op = "insert1" /\ ops[j].tbl = "part")
         => /\ Len(msg) > ops[j].at
            /\ msg[ops[j].at + 1].what = "insert1"
            /\ (msg[ops[j].at + 1].kind = "ok") <=> ops[j].ok

\* the master row the call of update_table addresses
TargetRow ==
    CHOOSE row \in RestrictTable(StoredMaster, master_key, MasterCols,
                                 MasterAttrs) : TRUE

\* the value coercion gives the submitted master record for column f
CoercedNew(f) == CoerceField(MasterAttrs[f], Get(rec0, f)).val

\* the secondary columns whose coerced new value differs from the stored one
ShouldUpdate ==
    {f \in SeqToSet(MasterCols) \ MasterPK : CoercedNew(f) # TargetRow[f]}

\* the field updates issued on the master table, in order
MasterUpdates == SelectSeq(ops, LAMBDA o : o.op = "update" /\ o.tbl = "master")

\* update_table got past fetch1 and returned
UpdateLoopDone ==
    /\ call = "update_table"
    /\ HasReturned
    /\ \E j \in DOMAIN ops : ops[j].op = "fetch" /\ ops[j].ok

(* C11.  update_table issues one single-field update for exactly the       *)
(* secondary columns whose coerced new value differs from the stored       *)
(* value, never for a primary-key column; a failed update does not stop    *)
(* the later ones; every update appends exactly one log line, success or   *)
(* failure as the update went.                                             *)
C11_FieldUpdates ==
    call = "update_table"
    => LET ups == MasterUpdates
       IN  /\ \A j \in DOMAIN ups :
                /\ ups[j].f \notin MasterPK
                /\ ups[j].f \in ShouldUpdate
                /\ \A k \in DOMAIN ups : ups[k].f = ups[j].f => k = j
                /\ Len(msg) > ups[j].at
                /\ msg[ups[j].at + 1].what = "update"
                /\ msg[ups[j].at + 1].ref = <<ups[j].f>>
                /\ (msg[ups[j].at + 1].kind = "ok") <=> ups[j].ok
                /\ j > 1 => ups[j].at = ups[j - 1].at + 1
           /\ UpdateLoopDone
              => /\ {ups[j].f : j \in DOMAIN ups} = ShouldUpdate
                 /\ Len(msg) = Len(Msg0) + Len(ups)

\* a returned call whose first field update failed and whose second went
\* through
C11_Witness ==
    /\ UpdateLoopDone
    /\ Len(MasterUpdates) = 2
    /\ ~MasterUpdates[1].ok
    /\ MasterUpdates[2].ok
    /\ master # StoredMaster

\* every read of the database the call made succeeded
ReadsSucceeded == \A j \in DOMAIN ops : IsWrite(ops[j]) \/ ops[j].ok

(* C12.  With an empty key mapping, a key holding an empty string, or a    *)
(* key that addresses no stored row, update_table returns the incoming log *)
(* unchanged, leaves the record uncoerced and issues no write (the reads   *)
(* of the database succeeding).                                            *)
C12_NoKeyNoOp ==
    (/\ call = "update_table"
     /\ pc = "done"
     /\ ReadsSucceeded
     /\ \/ master_key = <<>>
        \/ "" \in Values(master_key)
        \/ RestrictTable(StoredMaster, master_key, MasterCols, MasterAttrs) = {})
    => /\ HasReturned
       /\ result.val = Msg0
       /\ rec = rec0
       /\ NoWrites
       /\ master = StoredMaster

\* every field of d outside the columns ks is the empty string
BlankOutside(d, ks) == \A j \in DOMAIN d : d[j][1] \notin ks => d[j][2] = ""

\* the record the part row d would be stored as: coerced, the master key
\* injected
AsPartRecord(d) == PyDict(InjectKey(CoerceFrom(d, PartAttrs, 1).d, master_key))

\* the submitted part row d was passed to an insert of the part table
PassedToInsert(d) ==
    \E j \in DOMAIN ops :
        /\ ops[j].op \in {"insert", "insert1"}
        /\ ops[j].tbl = "part"
        /\ \E a \in DOMAIN ops[j].arg : PyEq(ops[j].arg[a], AsPartRecord(d))

\* the submitted master record was passed to an insert of the master table
MasterInserted ==
    \E j \in DOMAIN ops : ops[j].op = "insert1" /\ ops[j].tbl = "master"

\* a call that cleans part rows with a master key is under way
CleansPartRows ==
    /\ call \in {"update_part_table", "insert_part_table", "add_record"}
    /\ master_key # <<>>

\* a call that cleans the master record without a master key is under way
CleansMasterRecord == call \in {"add_record", "update_table"}

(* C13 as stated.  A record whose non-key (secondary) fields are all the   *)
(* empty string is dropped whatever its primary-key fields hold, with or   *)
(* without a master key, and is never passed to an insert.                 *)
C13_BlankSecondaryDropped ==
    /\ CleansPartRows
       => \A j \in DOMAIN data :
             BlankOutside(data[j], PartPK)
             => /\ clean_single_gui_record(data[j], PartAttrs, master_key,
                                           TRUE).tag = "none"
                /\ ~PassedToInsert(data[j])
    /\ CleansMasterRecord
       => (BlankOutside(rec0, MasterPK)
           => /\ clean_single_gui_record(rec0, MasterAttrs, <<>>, FALSE).tag = "none"
              /\ ~MasterInserted)

(* C13 amended.  A record is dropped when every field other than the       *)
(* columns of the supplied master key is the empty string (every field,    *)
(* when no master key is supplied), whatever the types of its fields; such *)
(* a record is never passed to an insert.                                  *)
C13_BlankPlaceholderDropped ==
    /\ CleansPartRows
       => \A j \in DOMAIN data :
             BlankOutside(data[j], Keys(master_key))
             => /\ clean_single_gui_record(data[j], PartAttrs, master_key,
                                           TRUE).tag = "none"
                /\ ~PassedToInsert(data[j])
    /\ CleansMasterRecord
       => (BlankOutside(rec0, {})
           => /\ clean_single_gui_record(rec0, MasterAttrs, <<>>, FALSE).tag = "none"
              /\ ~MasterInserted)

\* two rows were submitted, the first blank, and a batch insert of the
\* second one alone went through
C13_Witness ==
    /\ call = "insert_part_table"
    /\ HasReturned
    /\ Len(data) = 2
    /\ BlankOutside(data[1], {})
    /\ ~BlankOutside(data[2], {})
    /\ \E j \in DOMAIN ops :
          /\ ops[j].op = "insert"
          /\ ops[j].ok
          /\ Len(ops[j].arg) = 1
    /\ part # part0

\* the positions of the fields of d that fail coercion
FailingFields(d, attrs) ==
    {j \in DOMAIN d : CoerceField(attrs[d[j][1]], d[j][2]).err # ""}

\* the coercion error of the first field of d, in the order of d, that fails
FirstError(d, attrs) ==
    LET j0 == CHOOSE j \in FailingFields(d, attrs) :
                  \A k \in FailingFields(d, attrs) : j <= k
    IN  CoerceField(attrs[d[j0][1]], d[j0][2]).err

\* the master record submitted is meaningful and has a field failing coercion
RecordFailsCoercion ==
    /\ CleansMasterRecord
    /\ ~BlankOutside(rec0, {})
    /\ FailingFields(rec0, MasterAttrs) # {}

(* C14.  When a field of a meaningful master record fails coercion, the    *)
(* cleaning returns the coercion error of the first failing field, in the  *)
(* order of the record's fields, and no typed record; update_table and     *)
(* add_record then issue no write.                                         *)
C14_StopOnFirstError ==
    RecordFailsCoercion
    => /\ NoWrites
       /\ master = StoredMaster /\ part = part0
       /\ entry \in {PyDict(<<>>), PyStr(FirstError(rec0, MasterAttrs))}
       /\ call = "add_record" => entry = PyStr(FirstError(rec0, MasterAttrs))
       /\ (call = "update_table" /\ HasReturned /\ Len(msg) > Len(Msg0))
          => /\ entry = PyStr(FirstError(rec0, MasterAttrs))
             /\ msg = Append(Msg0, Entry("err", "coercion", <<entry.s>>))

\* update_table returned the error of subject_id, the first of two failing
\* fields
C14_Witness ==
    /\ call = "update_table"
    /\ HasReturned
    /\ Cardinality(FailingFields(rec0, MasterAttrs)) = 2
    /\ entry = PyStr("Invalid int value x")
    /\ Len(msg) = Len(Msg0) + 1

\* a record was cleaned by itself and a record came back
CleanedToRecord == pc # "clean" /\ clean_d.tag = "dict"

(* C15.  With a master key supplied and key injection requested, every     *)
(* record clean_single_gui_record returns holds the master key's value in  *)
(* every master-key column, whatever the raw record held there, the        *)
(* coerced raw value in every other column, and no other column.           *)
C15_KeyInjection ==
    (CleanedToRecord /\ master_key # <<>> /\ add_key)
    => LET ret == clean_d.ret.d
       IN  /\ Keys(ret) = Keys(rec0) \cup Keys(master_key)
           /\ Len(ret) = Cardinality(Keys(ret))
           /\ \A k \in Keys(master_key) : Get(ret, k) = Get(master_key, k)
           /\ \A k \in Keys(rec0) \ Keys(master_key) :
                 Get(ret, k) = CoerceField(AttrsOf(schema)[k], Get(rec0, k)).val

\* a part row that came with subject 8 was returned under the master key 7
C15_Witness ==
    /\ CleanedToRecord
    /\ schema = "part"
    /\ add_key
    /\ "subject_id" \in Keys(rec0)
    /\ Get(rec0, "subject_id") = "8"
    /\ Get(clean_d.ret.d, "subject_id") = "i:7"
    /\ Get(clean_d.ret.d, "session") = "i:1"

\* the two formats a datetime or timestamp field is accepted in
SpaceFormat(v) == \E d \in DateText : v = d \o " 10:00:00"

TFormat(v) == \E d \in DateText : v = d \o "T10:00:00"

\* the date of a datetime text in one of the two formats
DateIn(v) == CHOOSE d \in DateText : v \in {d \o " 10:00:00", d \o "T10:00:00"}

\* what the coercion of the raw text v in a column of type t has to give
Expected(t, v) ==
    CASE t = "varchar" -> Val(v)
      [] t # "varchar" /\ v = "" -> Val("None")
      [] t = "date" /\ v # "" ->
           IF v \in DateText THEN Val("d:" \o v)
           ELSE Err("Invalid date value " \o v)
      [] t \in {"datetime", "timestamp"} /\ v # "" ->
           IF SpaceFormat(v) \/ TFormat(v) THEN Val("t:" \o DateIn(v))
           ELSE Err("Invalid " \o t \o " value " \o v)
      [] t \in {"int", "smallint", "tinyint", "bigint"} /\ v # "" ->
           IF v \in IntText THEN Val("i:" \o v)
           ELSE Err("Invalid int value " \o v)
      [] t \in {"float", "double", "decimal"} /\ v # "" ->
           IF v \in IntText THEN Val("f:" \o v)
           ELSE Err("Invalid numeric value " \o v)
      [] OTHER -> Val(v)

\* the positions of the fields of the raw record whose coercion has to fail
ExpectedFailures ==
    {j \in DOMAIN rec0 : Expected(AttrsOf(schema)[rec0[j][1]], rec0[j][2]).err # ""}

\* every key of the raw record is an attribute of the heading
KnownKeys == Keys(rec0) \subseteq DOMAIN AttrsOf(schema)

\* the columns the master key overrides
Injected == IF add_key THEN Keys(master_key) ELSE {}

C18_CleaningIdempotent ==
    /\ pc = "recleaned" => (clean_d2.tag = "dict" /\ clean_d2.ret = clean_d.ret)
    /\ (pc = "keyed" /\ clean_d.tag = "dict")
       => /\ ~entry_pk.raised
          /\ entry_pk.pk = Restrict(clean_d.ret.d, MasterPK)

\* a record with a typed date, datetime, number and null was cleaned again
C18_Witness ==
    /\ pc = "recleaned"
    /\ schema = "wide"
    /\ Get(clean_d.ret.d, "id") = "None"
    /\ Get(clean_d.ret.d, "day") = "d:2024-01-15"
    /\ Get(clean_d.ret.d, "seen") = "t:2024-01-15"
    /\ Get(clean_d.ret.d, "weight") = "f:5"
    /\ clean_d2.tag = "dict"

(* C20.  A raw record with a key that is no column of the table is cleaned *)
(* on its known columns: the unknown key is stripped and the record        *)
(* returned holds columns of the table only.                               *)
C20_UnknownKeysStripped ==
    (/\ pc # "clean"
     /\ ~KnownKeys
     /\ FailingFields(Restrict(rec0, DOMAIN AttrsOf(schema)), AttrsOf(schema)) = {})
    => /\ clean_d.tag = "dict"
       /\ Keys(clean_d.ret.d) \subseteq DOMAIN AttrsOf(schema)

\* the primary key of the table named tbl
PKOfTable(tbl) == IF tbl = "master" THEN MasterPK ELSE PartPK

\* the record or key x holds null in a primary-key column of the table tbl
NullKey(x, tbl) ==
    /\ x.tag = "dict"
    /\ \E k \in Keys(x.d) \cap PKOfTable(tbl) : Get(x.d, k) = "None"

(* C17.  No record the cleaning produced, no record passed to the database *)
(* and no key used to address it holds null in a primary-key column: an    *)
(* empty primary-key field is never coerced to null.                       *)
C17_KeyNeverNull ==
    /\ ~NullKey(entry, "master")
    /\ \A j \in DOMAIN new_data : ~NullKey(new_data[j], "part")
    /\ \A j \in DOMAIN ops : \A a \in DOMAIN ops[j].arg :
          ~NullKey(ops[j].arg[a], ops[j].tbl)

\* the log a is a prefix of the log b
IsPrefix(a, b) == Len(a) <= Len(b) /\ SubSeq(b, 1, Len(a)) = a

\* a call that keeps a log is under way
Logging == pc # "idle" /\ call # "clean_single_gui_record"

(* C19.  The log is append-only: during every call the log has the log     *)
(* the caller passed in as a prefix, no step removes or rewrites a line,   *)
(* every log returned is a prefix of the log as it stands, and in an       *)
(* update_record call the log returned at the end has the log returned by  *)
(* the master update as a prefix.                                          *)
C19_LogAppendOnly ==
    /\ [](Logging => IsPrefix(Msg0, msg))
    /\ [](result.kind = "return" => IsPrefix(result.val, msg))
    /\ [][IsPrefix(msg, msg')]_vars
    /\ [][(result.kind = "return" /\ result'.kind = "return")
            => IsPrefix(result.val, result'.val)]_vars

\* an update_record call returned after a field update of the master row
\* and an insert into the part table, each with its line in the log
C19_Witness ==
    /\ call = "update_record"
    /\ HasReturned
    /\ \E j \in DOMAIN ops : ops[j].op = "update" /\ ops[j].tbl = "master" /\ ops[j].ok
    /\ \E j \in DOMAIN ops : ops[j].op = "insert" /\ ops[j].tbl = "part" /\ ops[j].ok
    /\ Len(result.val) >= Len(Msg0) + 2

\* the positions of the old rows whose key no new row has
StaleKeys == {m \in DOMAIN old_data :
                \A n \in DOMAIN new_data : ~SameKey(old_data[m], new_data[n])}

DeleteOps == {j \in DOMAIN ops : ops[j].op = "delete"}

DeleteLines == {k \in DOMAIN msg : msg[k].what = "delete"}

\* the delete step of the update_part_table in progress is over
AfterDeleteStep ==
    \/ pc \in {"upt_insert", "upt_insert1", "upt_update", "upt_return"}
    \/ call = "update_part_table" /\ Diffed /\ HasReturned

(* C22.  The delete step of update_part_table is batch-only: with a        *)
(* non-empty toDelete exactly one delete is issued, for all the keys of    *)
(* toDelete, and exactly one log line (success or failure) is appended;    *)
(* with an empty toDelete there is no delete and no delete line; a failed  *)
(* delete is not retried per record and the insert and update steps still  *)
(* run.                                                                    *)
C22_DeleteBatchOnly ==
    /\ Cardinality(DeleteOps) <= 1
    /\ Cardinality(DeleteLines) = Cardinality(DeleteOps)
    /\ \A j \in DeleteOps :
         /\ Len(ops[j].arg) = Cardinality(StaleKeys)
         /\ \A m \in StaleKeys :
               \E k \in DOMAIN ops[j].arg : SameKey(ops[j].arg[k], old_data[m])
         /\ Len(msg) > ops[j].at
         /\ msg[ops[j].at + 1].what = "delete"
         /\ (msg[ops[j].at + 1].kind = "ok") <=> ops[j].ok
    /\ AfterDeleteStep
       => Cardinality(DeleteOps) = IF StaleKeys = {} THEN 0 ELSE 1
    /\ (pc = "done" /\ result.kind = "return"
        /\ \E j \in DeleteOps : ~ops[j].ok)
       => /\ Count("insert", "part")
               = IF new_records(old_data, new_data, PartPK) = <<>> THEN 0 ELSE 1
          /\ Count("update", "part") = Len(UpdatePlan(old_data, new_data, PartPK))

\* a returned call whose delete of two keys failed and which then issued
\* an insert
C22_Witness ==
    /\ pc = "done"
    /\ result.kind = "return"
    /\ \E j \in DeleteOps : ~ops[j].ok /\ Len(ops[j].arg) = 2
    /\ Count("insert", "part") = 1

\* a returned call whose delete failed and which then issued an update
C22_WitnessUpdate ==
    /\ pc = "done"
    /\ result.kind = "return"
    /\ \E j \in DeleteOps : ~ops[j].ok
    /\ Count("update", "part") >= 1

\* the call ended in Aborted: only the coercion error returned, nothing written
Aborted ==
    /\ result.kind = "return"
    /\ Len(result.val) = 1
    /\ result.val[1].what = "coercion"
    /\ NoWrites

\* the call ended in Reported: the log was returned
Reported == result.kind = "return" /\ result.val = msg

\* the positions in ops of the operations op on the part table
OpsOf(op) == {j \in DOMAIN ops : ops[j].op = op /\ ops[j].tbl = "part"}

\* no part-table operation is attempted twice for the same target, except
\* that the rows of a failed batch insert are each inserted once more,
\* alone and in order
OncePerTarget ==
    /\ Cardinality(OpsOf("fetch")) <= 1
    /\ Cardinality(OpsOf("delete")) <= 1
    /\ Cardinality(OpsOf("insert")) <= 1
    /\ \A j \in OpsOf("insert") :
         /\ ops[j].ok => OpsOf("insert1") = {}
         /\ \A b \in OpsOf("insert1") :
               /\ b > j
               /\ b - j <= Len(ops[j].arg)
               /\ ops[b].arg = <<ops[j].arg[b - j]>>
         /\ (~ops[j].ok /\ pc \notin {"upt_insert1", "ipt_insert1"})
            => Cardinality(OpsOf("insert1")) = Len(ops[j].arg)
    /\ OpsOf("insert") = {} => OpsOf("insert1") = {}
    /\ \A a, b \in OpsOf("update") :
         (a < b /\ ops[a].f = ops[b].f /\ SameKey(ops[a].arg[1], ops[b].arg[1]))
         => Cardinality({n \in DOMAIN new_data :
                           SameKey(new_data[n], ops[a].arg[1])}) > 1

(* C23.  Every call of update_part_table or insert_part_table ends in one  *)
(* of the two terminal states, Aborted (the validation error returned and  *)
(* nothing written) or Reported (the log returned), and no storage         *)
(* operation is attempted twice for the same target, except that each row  *)
(* of a failed batch insert is inserted exactly once more on its own.      *)
C23_TerminalStates ==
    call \in {"update_part_table", "insert_part_table"}
    => /\ pc = "done" => (Aborted \/ Reported)
       /\ OncePerTarget

\* the part of C23 about repeated operations, for the two part functions
C23_OncePerTarget ==
    call \in {"update_part_table", "insert_part_table"} => OncePerTarget

(* C24.  Coercion has no side effects: once clean_single_gui_record has    *)
(* returned (a typed record, None or a coercion error) the raw record the  *)
(* caller handed in holds the keys and raw values it held before the call. *)
C24_CoercionPure ==
    (/\ call = "clean_single_gui_record"
     /\ pc # "clean"
     /\ clean_d.tag \in {"none", "str", "dict"})
    => rec = rec0

(* C25.  Every single-field update of update_part_table writes to field f  *)
(* the value the new record holds for f, whatever the order of the columns *)
(* in the submitted rows, and every non-key column of a new record that    *)
(* differs from its old record gets an update.                             *)
C25_UpdateSameColumn ==
    /\ \A j \in OpsOf("update") :
         \E n \in DOMAIN new_data :
            /\ SameKey(new_data[n], ops[j].arg[1])
            /\ ops[j].f \in Keys(new_data[n].d)
            /\ Get(new_data[n].d, ops[j].f) = ops[j].v
    /\ (call = "update_part_table" /\ Diffed /\ HasReturned)
       => \A n \in ChangedInNew :
             \A c \in SeqToSet(PartCols) \ PartPK :
                Get(new_data[n].d, c) # Get(FirstOld(new_data[n]).d, c)
                => \E j \in OpsOf("update") :
                      /\ SameKey(new_data[n], ops[j].arg[1])
                      /\ ops[j].f = c

\* the part rows submitted with the dialog are the stored rows of master
\* key 7, unedited
PartRowsUnedited ==
    /\ Get(rec0, "subject_id") = "7"
    /\ data # <<>>
    /\ ListEq(clean_gui_data(PartAttrs, data, Key7, TRUE).items,
              FetchPart(part0, Key7))

(* C26.  In update_record the master key passed to update_part_table holds *)
(* the coerced, typed primary-key values of the master record, so that a   *)
(* part table whose rows were not edited compares equal to its stored rows *)
(* and is reported unchanged, with no delete or insert issued.             *)
C26_TypedKeyThreaded ==
    /\ (call = "update_record" /\ pc \in {"upr_parts", "upt_fetch"}
        /\ Get(rec0, "subject_id") = "7")
       => master_key = Key7
    /\ (call = "update_record" /\ pc = "done" /\ result.kind = "return"
        /\ OpsOf("fetch") # {} /\ PartRowsUnedited)
       => /\ msg[Len(msg)].what = "unchanged"
          /\ OpsOf("delete") = {}
          /\ OpsOf("insert") = {}
          /\ part = part0

\* the second half of C26 alone: unedited part rows are reported unchanged
C26_UneditedUnchanged ==
    (call = "update_record" /\ pc = "done" /\ result.kind = "return"
     /\ OpsOf("fetch") # {} /\ PartRowsUnedited)
    => /\ msg[Len(msg)].what = "unchanged"
       /\ OpsOf("delete") = {}
       /\ OpsOf("insert") = {}

\* the master record was inserted by this add_record call
MasterInsertOk ==
    \E j \in DOMAIN ops :
       ops[j].op = "insert1" /\ ops[j].tbl = "master" /\ ops[j].ok

\* insert_part_table was entered by this call
InsertPartTableCalled ==
    \/ pc \in {"ipt_insert", "ipt_insert1"}
    \/ OpsOf("insert") # {}

(* C27.  In add_record a part-table insert is attempted only after the     *)
(* master record was inserted successfully by the same call: when the key  *)
(* existed or the master insert failed, insert_part_table is not called    *)
(* and no part row is written.                                             *)
C27_PartsAfterMasterInsert ==
    call = "add_record"
    => /\ InsertPartTableCalled => MasterInsertOk
       /\ ~MasterInsertOk => part = part0

\* every row submitted to insert_part_table is a blank placeholder
AllRowsBlank ==
    /\ data # <<>>
    /\ \A j \in DOMAIN data : Values(data[j]) = {""}

(* C29.  insert_part_table appends the 'Successfully inserted' line only   *)
(* when at least one record was submitted to storage: when every submitted *)
(* row is a blank placeholder, dropped by the cleaning, no insert is       *)
(* invoked and no success line is appended.                                *)
C29_SuccessNeedsRecord ==
    call = "insert_part_table"
    => /\ \A k \in DOMAIN msg :
            (msg[k].what = "insert" /\ msg[k].kind = "ok")
            => \E j \in OpsOf("insert") : ops[j].arg # <<>>
       /\ AllRowsBlank
          => /\ OpsOf("insert") = {}
             /\ \A k \in DOMAIN msg : msg[k].what # "insert"

\* the part rows of the master key as they were stored when the call began
Snapshot == FetchPart(part0, master_key)

\* the write w of another actor was undone by the operation ops[j]
UndoneBy(w, j) ==
    /\ j > w.at
    /\ ops[j].ok
    /\ \E a \in DOMAIN ops[j].arg :
          \A c \in PartPK : Get(ops[j].arg[a].d, c) = w.row[c]
    /\ w.row \notin part

(* C21.  update_part_table has no guard against a concurrent write: it     *)
(* reads the stored rows once, and when another actor writes to the part   *)
(* rows of the master key after that fetch, the delete, the insert and the *)
(* updates issued are still the ones of the diff between the submitted     *)
(* rows and the rows fetched, which are never read again.                  *)
C21_StaleDiffApplied ==
    call = "update_part_table"
    => /\ Cardinality(OpsOf("fetch")) <= 1
       /\ \A k \in DOMAIN other : \A j \in OpsOf("fetch") : j <= other[k].at
       /\ Fetched => old_data = Snapshot
       /\ \A j \in OpsOf("delete") :
             /\ Len(ops[j].arg) = Cardinality(StaleKeys)
             /\ \A m \in StaleKeys :
                   \E k \in DOMAIN ops[j].arg : SameKey(ops[j].arg[k], old_data[m])
       /\ \A j \in OpsOf("insert") :
             /\ Len(ops[j].arg) = Cardinality(AbsentFromOld)
             /\ \A k \in DOMAIN ops[j].arg :
                   ops[j].arg[k] = new_data[Kth(AbsentFromOld, k)]
       /\ \A j \in OpsOf("update") :
             \E n \in ChangedInNew : SameKey(new_data[n], ops[j].arg[1])

\* another actor changed the note of a row after the fetch and the call
\* then overwrote that note with a successful update
C21_Witness ==
    /\ HasReturned
    /\ \E k \in DOMAIN other :
          /\ other[k].kind = "change"
          /\ \E j \in OpsOf("update") :
                UndoneBy(other[k], j) /\ ops[j].f = "note"

\* another actor changed a row after the fetch and the call then deleted it
C21_WitnessDeleted ==
    /\ HasReturned
    /\ \E k \in DOMAIN other :
          /\ other[k].kind = "change"
          /\ \E j \in OpsOf("delete") : UndoneBy(other[k], j)
          /\ \A q \in part : ~SamePK(q, other[k].row, PartPK)

\* the rows of the table that pass every filter at the values vals
RowsFor(vals) ==
    {row \in master :
       \A f \in SeqToSet(FilterIds) :
          vals[f] = "All" \/ row[FieldOf(f)] = vals[f]}

(* C28.  The rows update_table_data returns on a filter change are the     *)
(* table restricted by the values of all the filters as the triggering     *)
(* browser session supplied them; they do not depend on a filter value set *)
(* by another session or an earlier invocation.                            *)
C28_RowsFromOwnFilters ==
    (call = "update_table_data" /\ table_data.trigger \in SeqToSet(FilterIds))
    => table_data.rows = RowsFor(filter_values[table_data.session])

\* the delete, insert and update operations of os, in order
WritesOf(os) ==
    LET ws == SelectSeq(os, IsWrite)
    IN  [k \in DOMAIN ws |-> [op |-> ws[k].op, arg |-> ws[k].arg,
                              f |-> ws[k].f, v |-> ws[k].v]]

\* the success and failure lines of the log, in order
OutcomesOf(log) ==
    LET ls == SelectSeq(log, LAMBDA l : l.kind \in {"ok", "err"})
    IN  [k \in DOMAIN ls |-> [kind |-> ls[k].kind, what |-> ls[k].what]]

\* both copies have run on the same stored rows and submitted rows
BothRan == first.done /\ call = "update_part_table" /\ pc = "done"

(* C30.  The two copies of the module agree: on the same part table,       *)
(* master key, stored rows and submitted rows (carrying the master-key     *)
(* column) the update_part_table of dj_dashboard and the one of            *)
(* datajoint_dashboard issue the same sequence of delete, insert and       *)
(* update operations and return logs with the same sequence of success and *)
(* failure outcomes.                                                       *)
C30_CopiesAgree ==
    BothRan
    => /\ result.kind = first.kind
       /\ WritesOf(ops) = WritesOf(first.ops)
       /\ OutcomesOf(msg) = OutcomesOf(first.msg)

\* every submitted row is meaningful and passes coercion
RowsAllValid ==
    \A j \in DOMAIN data :
       clean_single_gui_record(data[j], PartAttrs, Key7, TRUE).tag = "dict"

\* the two copies agree when every row is valid and no operation fails
C30_AgreeOnValidRows ==
    (BothRan /\ RowsAllValid /\ \A j \in DOMAIN first.ops : first.ops[j].ok)
    => /\ result.kind = first.kind
       /\ WritesOf(ops) = WritesOf(first.ops)
       /\ OutcomesOf(msg) = OutcomesOf(first.msg)
       /\ part = first.part

\* the copies differ on valid rows when the batch insert fails and a retry
\* succeeds: the older copy logs the retry as an error
C30_AgreeOnRetry ==
    (BothRan /\ RowsAllValid
     /\ \E j \in DOMAIN first.ops : first.ops[j].op = "insert1" /\ first.ops[j].ok)
    => OutcomesOf(msg) = OutcomesOf(first.msg)

\* the copies differ on valid rows when an update fails: the older copy
\* logs nothing
C30_AgreeOnFailedUpdate ==
    (BothRan /\ RowsAllValid
     /\ \E j \in DOMAIN first.ops : first.ops[j].op = "update" /\ ~first.ops[j].ok)
    => OutcomesOf(msg) = OutcomesOf(first.msg)

\* the copies differ when a blank row is submitted: the older copy keeps it
C30_AgreeOnBlankRows ==
    (BothRan /\ fault_at = 0
     /\ \A j \in DOMAIN data :
           clean_single_gui_record(data[j], PartAttrs, Key7, TRUE).tag
             \in {"dict", "none"})
    => WritesOf(ops) = WritesOf(first.ops)

====
